---- MODULE Spec2Model ----
(***************************************************************************)
(* State-machine model of the koru-ts simulation core: the priority        *)
(* message bus (MessageBus, Message, PlayerBehaviour as a reacting         *)
(* handler), the collision engine (CollisionManager, Rectangle2D,          *)
(* Circle2D) and the zone state machine (Zone).                            *)
(***************************************************************************)
EXTENDS Integers, Sequences, FiniteSets, TLC

(***************************************************************************)
(* Bounds of the model                                                      *)
(***************************************************************************)
\* number of Message objects the host may create in the message-bus runs
MaxPosts == 3
\* number of Message objects the host may create in the drain runs
MaxDrainPosts == 6
\* length of the list of registered collision components
MaxRegistered == 3
\* largest value of the simulation clock CollisionManager._totalTime
MaxTime == 2
\* number of SimObjects of a zone, its scene root included
MaxNodes == 4
\* number of SimObjects of a scene the host builds, its root included
MaxTreeNodes == 3
\* length of the list of children of a SimObject the host builds
MaxChildren == 2
\* number of requests for an asset that are ever sent
MaxRequests == 3
\* number of messages constructed before the last frame of the engine
MaxFrameMessages == 6

\* number of references to one material the host holds at a time
MaxReferences == 3

\* how far from the origin a moving node is still updated
MaxTravel == 1

(***************************************************************************)
(* Program constants                                                        *)
(***************************************************************************)
\* enum MessagePriority { NORMAL, HIGH }
NORMAL == 0
HIGH == 1

\* enum ZoneState { UNINITIALIZED, LOADING, UPDATING }
UNINITIALIZED == 0
LOADING == 1
UPDATING == 2

\* MessageBus._normalQueueMessagePerUpdate
normalQueueMessagePerUpdate == 10

\* the two kinds of IMessageHandler of the model: a PlayerBehaviour and a
\* handler whose onMessage leaves the bus alone (KoruTSEngine.onMessage)
Handlers == {"player", "listener"}

\* PlayerBehaviour._playerCollisionComponent, _groundCollisionComponent and
\* _pipeNames of the modelled player
playerCollisionComponent == "player"
groundCollisionComponent == "ground"
pipeNames == {"pipe1Collision_end"}

\* the code of the message AssetManager.onAssetLoaded sends, without the
\* asset name
MESSAGE_ASSET_LOADER_ASSET_LOADED == "MESSAGE_ASSET_LOADER_ASSET_LOADED::"

\* the zone file ZoneManager.initialize registers
testZone == "assets/zones/testZone.json"

\* a message posted without a context
Undefined == [undefined |-> TRUE]

Min(a, b) == IF a < b THEN a ELSE b

(***************************************************************************)
(* State                                                                    *)
(***************************************************************************)
VARIABLES
  subscription,        \* MessageBus._subscription: code -> list of handlers
  normalMessageQueue,  \* MessageBus._normalMessageQueue
  isAlive,             \* PlayerBehaviour._isAlive of handler "player"
  nextId,              \* number of Message objects constructed so far
  collisionComponents, \* CollisionManager._collisionComponents
  collisionData,       \* CollisionManager._collisionData
  totalTime,           \* CollisionManager._totalTime
  shapePosition,       \* shape.position of every collision component
  zoneState,           \* Zone._state
  globalID,            \* Zone._globalID
  nodes,               \* the SimObjects of the zone's scene, in the order
                       \* of their construction; nodes[1] is Scene._root
  registeredZones,     \* ZoneManager._registeredZones: id -> asset name
  activeZone,          \* ZoneManager._activeZone !== undefined; the Zone
                       \* it refers to is the one of zoneState, globalID
                       \* and nodes
  loaders,             \* AssetManager._loaders
  loadAssets,          \* AssetManager._loadAssets: name -> asset
  requests,            \* the XMLHttpRequests in flight, by asset name
  componentBuilders,   \* ComponentManager._registeredBuilders: the types
  behaviourBuilders,   \* BehaviourManager._registeredBuilders: the types
  keys,                \* InputManager._keys: the key codes that are down
  materials,           \* MaterialManager._materials: name -> node
  held,                \* the references to each material that getMaterial
                       \* handed out and releaseMaterial has not got back
  last                 \* the last operation: its inputs, the state it
                       \* started from and the calls it made, in order

busVars == <<subscription, normalMessageQueue, isAlive, nextId>>
colVars == <<collisionComponents, collisionData, totalTime, shapePosition>>
zoneVars == <<zoneState, globalID, nodes>>
managerVars == <<registeredZones, activeZone, loaders, loadAssets, requests>>
builderVars == <<componentBuilders, behaviourBuilders>>
materialVars == <<materials, held>>
vars == <<subscription, normalMessageQueue, isAlive, nextId,
          collisionComponents, collisionData, totalTime, shapePosition,
          zoneState, globalID, nodes, registeredZones, activeZone, loaders,
          loadAssets, requests, componentBuilders, behaviourBuilders, keys, materials, held,
          last>>

(***************************************************************************)
(* Message, MessageSubscriptionNode                                         *)
(***************************************************************************)
Message(code, sender, context, priority, id) ==
  [code |-> code, sender |-> sender, context |-> context,
   priority |-> priority, id |-> id]

MessageSubscriptionNode(message, handler) ==
  [message |-> message, handler |-> handler]

\* the part of the program state that a call chain reads and writes,
\* together with the calls made so far
World ==
  [sub |-> subscription, queue |-> normalMessageQueue, alive |-> isAlive,
   nid |-> nextId, cc |-> collisionComponents, cd |-> collisionData,
   tt |-> totalTime, pos |-> shapePosition, zs |-> zoneState,
   gid |-> globalID, nodes |-> nodes, registered |-> registeredZones,
   active |-> activeZone, loaders |-> loaders, loadAssets |-> loadAssets,
   requests |-> requests, cb |-> componentBuilders,
   bb |-> behaviourBuilders, keys |-> keys, materials |-> materials, held |-> held,
   loads |-> << >>, ret |-> Undefined,
   thrown |-> FALSE, trace |-> <<>>]

(***************************************************************************)
(* MessageBus                                                               *)
(***************************************************************************)
\* console.warn
warn(W, text) ==
  [W EXCEPT !.trace = Append(@, [ev |-> "warn", text |-> text])]

\* addSubscription without the duplicate test
addSubscription_NoDuplicateTest(W, code, handler) ==
  LET W1 == IF code \notin DOMAIN W.sub
            THEN [W EXCEPT !.sub = @ @@ (code :> <<>>)]
            ELSE W
  IN [W1 EXCEPT !.sub[code] = Append(@, handler)]

addSubscription(W, code, handler) ==
  LET W1 == IF code \notin DOMAIN W.sub
            THEN [W EXCEPT !.sub = @ @@ (code :> <<>>)]
            ELSE W
  IN IF \E i \in 1..Len(W1.sub[code]) : W1.sub[code][i] = handler
     THEN warn(W1, "duplicate handler")
     ELSE [W1 EXCEPT !.sub[code] = Append(@, handler)]

\* Array.indexOf: the first index (1-based) of x in s, 0 when absent
indexOf(s, x) ==
  IF \E i \in 1..Len(s) : s[i] = x
  THEN CHOOSE i \in 1..Len(s) : s[i] = x /\ \A j \in 1..(i - 1) : s[j] # x
  ELSE 0

\* Array.splice(index, 1) with a 1-based index
splice1(s, index) ==
  [i \in 1..(Len(s) - 1) |-> IF i < index THEN s[i] ELSE s[i + 1]]

\* removeSubscription without the test of nodeIndex: splice(-1, 1) takes
\* the last handler out
removeSubscription_NoIndexTest(W, code, handler) ==
  IF code \notin DOMAIN W.sub
  THEN warn(W, "code is not subscribed to")
  ELSE LET nodeIndex == indexOf(W.sub[code], handler)
       IN IF nodeIndex # 0
          THEN [W EXCEPT !.sub[code] = splice1(@, nodeIndex)]
          ELSE IF W.sub[code] # << >>
          THEN [W EXCEPT !.sub[code] = SubSeq(@, 1, Len(@) - 1)]
          ELSE W

\* removeSubscription that also takes the queued pairs of the handler for
\* the code out of the queue
removeSubscription_PurgesQueue(W, code, handler) ==
  IF code \notin DOMAIN W.sub
  THEN warn(W, "code is not subscribed to")
  ELSE LET nodeIndex == indexOf(W.sub[code], handler)
           W1 == [W EXCEPT !.queue =
                    SelectSeq(@, LAMBDA node :
                      ~ (node.handler = handler /\ node.message.code = code))]
       IN IF nodeIndex # 0
          THEN [W1 EXCEPT !.sub[code] = splice1(@, nodeIndex)]
          ELSE W1

\* MessageBus.removeSubscription
removeSubscription(W, code, handler) ==
  IF code \notin DOMAIN W.sub
  THEN warn(W, "code is not subscribed to")
  ELSE LET nodeIndex == indexOf(W.sub[code], handler)
       IN IF nodeIndex # 0
          THEN [W EXCEPT !.sub[code] = splice1(@, nodeIndex)]
          ELSE W

RECURSIVE post(_, _)
RECURSIVE postLoop(_, _, _)
RECURSIVE onMessage(_, _, _)
RECURSIVE drainLoop(_, _, _)

\* Message.send
send(W, code, sender, context) ==
  post([W EXCEPT !.nid = @ + 1],
       Message(code, sender, context, NORMAL, W.nid))

\* Message.sendPriority
sendPriority(W, code, sender, context) ==
  post([W EXCEPT !.nid = @ + 1],
       Message(code, sender, context, HIGH, W.nid))

\* die that sends PLAYER_DIED with sendPriority
die_SendsPriority(W) ==
  IF W.alive
  THEN sendPriority([W EXCEPT !.alive = FALSE], "PLAYER_DIED", "player",
                    Undefined)
  ELSE W

\* PlayerBehaviour.die
die(W) ==
  IF W.alive
  THEN send([W EXCEPT !.alive = FALSE], "PLAYER_DIED", "player", Undefined)
  ELSE W

\* PlayerBehaviour.onMessage
PlayerBehaviour_onMessage(W, message) ==
  CASE message.code = "COLLISION_ENTRY: " \o playerCollisionComponent ->
         LET data == message.context
             W1 == IF \/ data.a = groundCollisionComponent
                      \/ data.b = groundCollisionComponent
                   THEN die(W) ELSE W
         IN IF data.a \in pipeNames \/ data.b \in pipeNames
            THEN die(W1) ELSE W1
    [] message.code = "GAME_RESET" -> [W EXCEPT !.alive = TRUE]
    [] OTHER -> W

\* ZoneManager.onMessage; message.code.indexOf(...) !== -1 holds of the
\* codes AssetManager.onAssetLoaded makes.  The call of loadZone is kept in
\* W.loads and made by loadZones, which gives the same state since loadZone
\* leaves the message bus alone.
ZoneManager_onMessage(W, message) ==
  IF \E assetName \in {testZone} :
       message.code = MESSAGE_ASSET_LOADER_ASSET_LOADED \o assetName
  THEN [W EXCEPT !.loads = Append(@, message.context)]
  ELSE W

\* IMessageHandler.onMessage of handler h
onMessage(W, h, message) ==
  LET W1 == [W EXCEPT !.trace =
               Append(@, [ev |-> "onMessage", handler |-> h,
                          message |-> message])]
  IN CASE h = "player" -> PlayerBehaviour_onMessage(W1, message)
       [] h = "zoneManager" -> ZoneManager_onMessage(W1, message)
       [] h = "leaver" -> removeSubscription(W1, message.code, h)
       [] h = "inviter" -> addSubscription(W1, message.code, "listener")
       [] OTHER -> W1

\* the body of `for (let h of handlers)` in MessageBus.post; the array is
\* the live subscription list, read again at every step
postLoop(W, message, i) ==
  IF i > Len(W.sub[message.code])
  THEN W
  ELSE LET h == W.sub[message.code][i]
           W1 == IF message.priority = HIGH
                 THEN onMessage(W, h, message)
                 ELSE [W EXCEPT !.queue =
                         Append(@, MessageSubscriptionNode(message, h))]
       IN postLoop(W1, message, i + 1)

\* post that never delivers inline: every message is queued
post_NeverInline(W, message) ==
  LET W1 == [W EXCEPT !.trace = Append(@, [ev |-> "post", message |-> message])]
  IN IF message.code \notin DOMAIN W1.sub
     THEN W1
     ELSE postLoop(W1, [message EXCEPT !.priority = NORMAL], 1)

post(W, message) ==
  LET W1 == [W EXCEPT !.trace = Append(@, [ev |-> "post", message |-> message])]
  IN IF message.code \notin DOMAIN W1.sub
     THEN W1
     ELSE postLoop(W1, message, 1)

\* the loop of MessageBus.update: messageLimit times shift() and deliver
drainLoop(W, i, messageLimit) ==
  IF i >= messageLimit
  THEN W
  ELSE IF W.queue = <<>>
       THEN drainLoop(W, i + 1, messageLimit)
       ELSE LET node == Head(W.queue)
                W1 == [W EXCEPT !.queue = Tail(@)]
            IN drainLoop(onMessage(W1, node.handler, node.message),
                         i + 1, messageLimit)

\* update without the per-update cap: the whole queue is drained
MessageBus_update_NoCap(W, time) ==
  IF Len(W.queue) = 0
  THEN W
  ELSE drainLoop(W, 0, Len(W.queue))

MessageBus_update(W, time) ==
  IF Len(W.queue) = 0
  THEN W
  ELSE drainLoop(W, 0, Min(normalQueueMessagePerUpdate, Len(W.queue)))

(***************************************************************************)
(* Shapes: Vector2, Rectangle2D, Circle2D                                   *)
(***************************************************************************)
Vector2(x, y) == [x |-> x, y |-> y]

Rectangle2D(position, width, height) ==
  [type |-> "rectangle", position |-> position, width |-> width,
   height |-> height, radius |-> 0]

Circle2D(position, radius) ==
  [type |-> "circle", position |-> position, width |-> 0, height |-> 0,
   radius |-> radius]

Max(a, b) == IF a > b THEN a ELSE b

\* Rectangle2D.pointInShape
Rectangle2D_pointInShape(this, point) ==
  LET x == IF this.width < 0 THEN this.position.x - this.width
           ELSE this.position.x
      y == IF this.height < 0 THEN this.position.y - this.height
           ELSE this.position.y
      extentX == IF this.width < 0 THEN this.position.x
                 ELSE this.position.x + this.width
      extentY == IF this.height < 0 THEN this.position.y
                 ELSE this.position.y + this.height
  IN point.x >= x /\ point.x <= extentX /\ point.y >= y /\ point.y <= extentY

\* the closest-point test shared by Rectangle2D.intersects(Circle2D) and
\* Circle2D.intersects(Rectangle2D)
closestPointTest(rect, circle) ==
  LET closestX == Max(rect.position.x,
                      Min(circle.position.x, rect.position.x + rect.width))
      closestY == Max(rect.position.y,
                      Min(circle.position.y, rect.position.y + rect.height))
      deltaX == circle.position.x - closestX
      deltaY == circle.position.y - closestY
  IN deltaX * deltaX + deltaY * deltaY < circle.radius * circle.radius

\* Rectangle2D.intersects that also looks for the corners of this
\* rectangle in the other
Rectangle2D_intersects_BothWays(this, other) ==
  CASE other.type = "rectangle" ->
         \/ \E px \in {other.position.x, other.position.x + other.width} :
              \E py \in {other.position.y, other.position.y + other.height} :
                Rectangle2D_pointInShape(this, Vector2(px, py))
         \/ \E px \in {this.position.x, this.position.x + this.width} :
              \E py \in {this.position.y, this.position.y + this.height} :
                Rectangle2D_pointInShape(other, Vector2(px, py))
    [] other.type = "circle" -> closestPointTest(this, other)
    [] OTHER -> FALSE

\* Rectangle2D.intersects
Rectangle2D_intersects(this, other) ==
  CASE other.type = "rectangle" ->
         \/ Rectangle2D_pointInShape(this, other.position)
         \/ Rectangle2D_pointInShape(this,
              Vector2(other.position.x + other.width, other.position.y))
         \/ Rectangle2D_pointInShape(this,
              Vector2(other.position.x + other.width,
                      other.position.y + other.height))
         \/ Rectangle2D_pointInShape(this,
              Vector2(other.position.x, other.position.y + other.height))
    [] other.type = "circle" -> closestPointTest(this, other)
    [] OTHER -> FALSE

\* Circle2D.intersects that compares the distance with its own radius
Circle2D_intersects_OwnRadius(this, other) ==
  CASE other.type = "circle" ->
         LET dx == other.position.x - this.position.x
             dy == other.position.y - this.position.y
         IN dx * dx + dy * dy <= this.radius * this.radius
    [] other.type = "rectangle" -> closestPointTest(other, this)
    [] OTHER -> FALSE

\* Circle2D.intersects; Vector2.distance(a, b) <= r is compared on the
\* squares, both sides being non-negative
Circle2D_intersects(this, other) ==
  CASE other.type = "circle" ->
         LET dx == other.position.x - this.position.x
             dy == other.position.y - this.position.y
             radiusLength == this.radius + other.radius
         IN IF radiusLength < 0 THEN FALSE
            ELSE dx * dx + dy * dy <= radiusLength * radiusLength
    [] other.type = "rectangle" -> closestPointTest(other, this)
    [] OTHER -> FALSE

\* IShape2D.intersects
intersects(this, other) ==
  IF this.type = "rectangle" THEN Rectangle2D_intersects(this, other)
  ELSE Circle2D_intersects(this, other)

(***************************************************************************)
(* Collision components of the modelled zone                                *)
(***************************************************************************)
Components == {"player", "ground", "pipe1Collision_end"}

\* CollisionComponent.isStatic
isStatic(c) == c # "player"

\* the places the owner of a component can put its shape
Positions(c) ==
  CASE c = "player" -> {Vector2(1, 1), Vector2(3, 3), Vector2(9, 9)}
    [] c = "ground" -> {Vector2(0, 0)}
    [] OTHER -> {Vector2(1, 1), Vector2(9, 9)}

InitialPosition ==
  [c \in Components |->
     CASE c = "player" -> Vector2(9, 9)
       [] c = "ground" -> Vector2(0, 0)
       [] OTHER -> Vector2(1, 1)]

\* CollisionComponent.shape with its current position
shape(W, c) ==
  CASE c = "player" -> Rectangle2D(W.pos[c], 1, 1)
    [] c = "ground" -> Rectangle2D(W.pos[c], 3, 3)
    [] OTHER -> Circle2D(W.pos[c], 1)

(***************************************************************************)
(* CollisionManager                                                         *)
(***************************************************************************)
CollisionData(time, a, b) == [time |-> time, a |-> a, b |-> b]

Call(W, ev, self, other) ==
  [W EXCEPT !.trace = Append(@, [ev |-> ev, self |-> self, other |-> other])]

registerCollisionComponent(W, component) ==
  [W EXCEPT !.cc = Append(@, component)]

\* Array.slice(index, 1) returns a copy and leaves the array alone
unRegisterCollisionComponent(W, component) ==
  LET index == indexOf(W.cc, component)
  IN IF index # 0 THEN W ELSE W

clear(W) == [W EXCEPT !.cc = << >>]

\* the match of a record with the ordered pair (comp, other) only
findData_OneOrientation(cd, comp, other) ==
  IF \E d \in 1..Len(cd) : cd[d].a = comp /\ cd[d].b = other
  THEN CHOOSE d \in 1..Len(cd) :
         /\ cd[d].a = comp /\ cd[d].b = other
         /\ \A e \in 1..(d - 1) : ~ (cd[e].a = comp /\ cd[e].b = other)
  ELSE 0

\* the loop over _collisionData in CollisionManager.update: the index of
\* the first record of the pair, in either orientation, 0 if none
findData(cd, comp, other) ==
  IF \E d \in 1..Len(cd) : \/ cd[d].a = comp /\ cd[d].b = other
                           \/ cd[d].a = other /\ cd[d].b = comp
  THEN CHOOSE d \in 1..Len(cd) :
         /\ \/ cd[d].a = comp /\ cd[d].b = other
            \/ cd[d].a = other /\ cd[d].b = comp
         /\ \A e \in 1..(d - 1) :
              ~ (\/ cd[e].a = comp /\ cd[e].b = other
                 \/ cd[e].a = other /\ cd[e].b = comp)
  ELSE 0

\* the existing record d of the pair is refreshed
updateCollision(W, comp, other, d) ==
  LET W1 == Call(W, "onCollisionUpdate", comp, other)
      W2 == Call(W1, "onCollisionUpdate", other, comp)
  IN [W2 EXCEPT !.cd[d].time = W2.tt]

\* a new collision whose messages are sent with Message.send
newCollision_NormalMessages(W, comp, other) ==
  LET col == CollisionData(W.tt, comp, other)
      W1 == Call(W, "onCollisionEntry", comp, other)
      W2 == Call(W1, "onCollisionEntry", other, comp)
      W3 == send(W2, "COLLISION_ENTRY: " \o comp, "CollisionManager", col)
      W4 == send(W3, "COLLISION_ENTRY: " \o other, "CollisionManager", col)
  IN [W4 EXCEPT !.cd = Append(@, col)]

\* a new collision: the record, the entry callbacks, the two messages
newCollision(W, comp, other) ==
  LET col == CollisionData(W.tt, comp, other)
      W1 == Call(W, "onCollisionEntry", comp, other)
      W2 == Call(W1, "onCollisionEntry", other, comp)
      W3 == sendPriority(W2, "COLLISION_ENTRY: " \o comp,
                         "CollisionManager", col)
      W4 == sendPriority(W3, "COLLISION_ENTRY: " \o other,
                         "CollisionManager", col)
  IN [W4 EXCEPT !.cd = Append(@, col)]

\* the test of comp.shape against other.shape, noted among the calls
testPair(W, comp, other) ==
  LET hit == intersects(shape(W, comp), shape(W, other))
      W0 == [W EXCEPT !.trace =
               Append(@, [ev |-> "intersects", self |-> comp,
                          other |-> other, result |-> hit])]
  IN IF ~ hit THEN W0
     ELSE LET d == findData(W0.cd, comp, other)
          IN IF d # 0
             THEN updateCollision(W0, comp, other, d)
             ELSE newCollision(W0, comp, other)

\* the inner loop body without the test for two static components
scanPair_NoStaticSkip(W, comp, other) ==
  IF comp = other THEN W
  ELSE testPair(W, comp, other)

\* the body of the inner loop of CollisionManager.update for one (c, ob)
scanPair(W, comp, other) ==
  IF comp = other THEN W
  ELSE IF isStatic(comp) /\ isStatic(other) THEN W
  ELSE testPair(W, comp, other)

RECURSIVE scan(_, _, _)
scan(W, c, ob) ==
  IF c > Len(W.cc) THEN W
  ELSE IF ob > Len(W.cc) THEN scan(W, c + 1, 1)
  ELSE scan(scanPair(W, W.cc[c], W.cc[ob]), c, ob + 1)

\* Array.splice(index, 1) with the result of indexOf: -1 (here 0) counts
\* from the end and removes the last element
spliceIndexOf(s, index) ==
  IF Len(s) = 0 THEN s
  ELSE IF index = 0 THEN SubSeq(s, 1, Len(s) - 1)
  ELSE splice1(s, index)

RECURSIVE removeLoop(_, _)
removeLoop(W, removeData) ==
  IF removeData = << >> THEN W
  ELSE LET data == Head(removeData)
           index == indexOf(W.cd, data)
           W0 == [W EXCEPT !.cd = spliceIndexOf(@, index)]
           W1 == Call(W0, "onCollisionExit", data.a, data.b)
           W2 == Call(W1, "onCollisionExit", data.b, data.a)
           W3 == sendPriority(W2, "COLLISION_EXIT: " \o data.a,
                              "CollisionManager", data)
           W4 == sendPriority(W3, "COLLISION_EXIT: " \o data.b,
                              "CollisionManager", data)
       IN removeLoop(W4, Tail(removeData))

\* update that never removes a stale record
CollisionManager_update_NoRemoval(W, time) ==
  scan([W EXCEPT !.tt = @ + time], 1, 1)

CollisionManager_update(W, time) ==
  LET W1 == [W EXCEPT !.tt = @ + time]
      W2 == scan(W1, 1, 1)
      removeData == SelectSeq(W2.cd, LAMBDA data : data.time # W2.tt)
  IN removeLoop(W2, removeData)

(***************************************************************************)
(* Vector3, Matrix4x4, Transform                                            *)
(* A Matrix4x4 is the sequence of the sixteen numbers of _data, _data[k]    *)
(* being element k + 1.  The angles of the model are all 0.                 *)
(***************************************************************************)
Vector3(x, y, z) == [x |-> x, y |-> y, z |-> z]

\* Vector3.zero, Vector3.one
Vector3_zero == Vector3(0, 0, 0)

Vector3_one == Vector3(1, 1, 1)

\* Vector3.setFromJson: the fields json has replace the vector's
Vector3_setFromJson(this, json) ==
  [f \in {"x", "y", "z"} |-> IF f \in DOMAIN json THEN json[f] ELSE this[f]]

\* m._data[k]
dataAt(m, k) == m[k + 1]

\* m._data[k] = v
setData(m, k, v) == [m EXCEPT ![k + 1] = v]

\* Math.cos, Math.sin
Math_cos(angleInRadians) == CASE angleInRadians = 0 -> 1

Math_sin(angleInRadians) == CASE angleInRadians = 0 -> 0

\* new Matrix4x4(), Matrix4x4.identity
Matrix4x4_identity == << 1, 0, 0, 0,  0, 1, 0, 0,  0, 0, 1, 0,  0, 0, 0, 1 >>

Matrix4x4_translation(position) ==
  setData(setData(setData(Matrix4x4_identity, 12, position.x),
                  13, position.y), 14, position.z)

Matrix4x4_rotationX(angleInRadians) ==
  LET c == Math_cos(angleInRadians)
      s == Math_sin(angleInRadians)
  IN setData(setData(setData(setData(Matrix4x4_identity, 5, c), 6, s),
                     9, 0 - s), 10, c)

Matrix4x4_rotationY(angleInRadians) ==
  LET c == Math_cos(angleInRadians)
      s == Math_sin(angleInRadians)
  IN setData(setData(setData(setData(Matrix4x4_identity, 0, c), 2, 0 - s),
                     8, s), 10, c)

Matrix4x4_rotationZ(angleInRadians) ==
  LET c == Math_cos(angleInRadians)
      s == Math_sin(angleInRadians)
  IN setData(setData(setData(setData(Matrix4x4_identity, 0, c), 1, s),
                     5, 0 - s), 6, c)

Matrix4x4_scale(scale) ==
  setData(setData(setData(Matrix4x4_identity, 0, scale.x), 5, scale.y),
          10, scale.z)

\* the value Matrix4x4.multiply gives m._data[i * 4 + j]
multiplyEntry(a, b, i, j) ==
  dataAt(b, i * 4 + 0) * dataAt(a, 0 * 4 + j)
  + dataAt(b, i * 4 + 1) * dataAt(a, 1 * 4 + j)
  + dataAt(b, i * 4 + 2) * dataAt(a, 2 * 4 + j)
  + dataAt(b, i * 4 + 3) * dataAt(a, 3 * 4 + j)

\* Matrix4x4.multiply
Matrix4x4_multiply(a, b) ==
  <<
     multiplyEntry(a, b, 0, 0), multiplyEntry(a, b, 0, 1),
     multiplyEntry(a, b, 0, 2), multiplyEntry(a, b, 0, 3),
     multiplyEntry(a, b, 1, 0), multiplyEntry(a, b, 1, 1),
     multiplyEntry(a, b, 1, 2), multiplyEntry(a, b, 1, 3),
     multiplyEntry(a, b, 2, 0), multiplyEntry(a, b, 2, 1),
     multiplyEntry(a, b, 2, 2), multiplyEntry(a, b, 2, 3),
     multiplyEntry(a, b, 3, 0), multiplyEntry(a, b, 3, 1),
     multiplyEntry(a, b, 3, 2), multiplyEntry(a, b, 3, 3)
  >>

Matrix4x4_rotationXYZ(xRadians, yRadians, zRadians) ==
  LET rx == Matrix4x4_rotationX(xRadians)
      ry == Matrix4x4_rotationY(yRadians)
      rz == Matrix4x4_rotationZ(zRadians)
  IN Matrix4x4_multiply(Matrix4x4_multiply(rz, ry), rx)

\* new Transform()
Transform ==
  [position |-> Vector3_zero, rotation |-> Vector3_zero,
   scale |-> Vector3_one]

\* Transform.setFromJson
Transform_setFromJson(this, json) ==
  [f \in {"position", "rotation", "scale"} |->
     IF f \in DOMAIN json THEN Vector3_setFromJson(this[f], json[f])
     ELSE this[f]]

\* Transform.getTransformationMatrix
Transform_getTransformationMatrix(this) ==
  LET translation == Matrix4x4_translation(this.position)
      rotation == Matrix4x4_rotationXYZ(this.rotation.x, this.rotation.y,
                                        this.rotation.z)
      scale == Matrix4x4_scale(this.scale)
  IN Matrix4x4_multiply(Matrix4x4_multiply(translation, rotation), scale)

(***************************************************************************)
(* SimObject, Scene                                                         *)
(* A SimObject is known by its place in nodes; 0 is the undefined           *)
(* reference.                                                               *)
(***************************************************************************)
SimObject(id, name, scene) ==
  [id |-> id, name |-> name, scene |-> scene, parent |-> 0,
   children |-> << >>, isLoaded |-> FALSE, components |-> << >>,
   behaviours |-> << >>, transform |-> Transform,
   localMatrix |-> Matrix4x4_identity, worldMatrix |-> Matrix4x4_identity]

\* throw new Error(...)
throw(Z, text) ==
  [Z EXCEPT !.thrown = TRUE,
            !.trace = Append(@, [ev |-> "throw", text |-> text])]

\* a call on a component or behaviour that the model only records
Note(Z, ev, ref, name) ==
  [Z EXCEPT !.trace = Append(@, [ev |-> ev, node |-> ref, name |-> name])]

\* addChild that does not set the parent link of the child
addChild_NoParentLink(Z, this, child) ==
  [Z EXCEPT !.nodes[this].children = Append(@, child),
            !.nodes[child].scene = Z.nodes[this].scene]

\* SimObject.addChild and SimObject.onAdded
addChild(Z, this, child) ==
  [Z EXCEPT !.nodes[child].parent = this,
            !.nodes[this].children = Append(@, child),
            !.nodes[child].scene = Z.nodes[this].scene]

\* SimObject.removeChild
removeChild(Z, this, child) ==
  LET index == indexOf(Z.nodes[this].children, child)
  IN IF index # 0
     THEN [Z EXCEPT !.nodes[this].children = splice1(@, index)]
     ELSE Z

RECURSIVE getObjectByName(_, _, _)
\* SimObject.getObjectByName: the node found, 0 for undefined; the loop
\* over the children returns in its first round
getObjectByName(Z, this, name) ==
  IF Z.nodes[this].name = name THEN this
  ELSE IF Z.nodes[this].children = << >> THEN 0
  ELSE LET result == getObjectByName(Z, Z.nodes[this].children[1], name)
       IN IF result # 0 THEN result ELSE 0

\* Scene.getObjectByName: the call of the root's getObjectByName is made
\* and its result dropped
Scene_getObjectByName(Z, name) == 0

\* SimObject.addComponent: the push, then component.setOwner(this), a
\* TypeError when component is undefined
addComponent(Z, this, component) ==
  LET Z1 == [Z EXCEPT !.nodes[this].components = Append(@, component)]
  IN IF component = Undefined
     THEN throw(Z1, "TypeError: component is undefined")
     ELSE Z1

\* SimObject.addBehavour: the push, then behaviour.setOwner(this), a
\* TypeError when behaviour is undefined
addBehavour(Z, this, behaviour) ==
  LET Z1 == [Z EXCEPT !.nodes[this].behaviours = Append(@, behaviour)]
  IN IF behaviour = Undefined
     THEN throw(Z1, "TypeError: behaviour is undefined")
     ELSE Z1

\* SimObject.getWorldPosition
getWorldPosition(Z, this) ==
  Vector3(dataAt(Z.nodes[this].worldMatrix, 12),
          dataAt(Z.nodes[this].worldMatrix, 13),
          dataAt(Z.nodes[this].worldMatrix, 14))

\* Vector3.toVector2
toVector2(v) == Vector2(v.x, v.y)

\* CollisionComponent.load of the component called name of node owner;
\* the offset of its shape is (0, 0)
CollisionComponent_load(Z, owner, name) ==
  registerCollisionComponent(
    [Z EXCEPT !.pos[name] = toVector2(getWorldPosition(Z, owner))], name)

\* enum Keys
Keys == [LEFT |-> 37, UP |-> 38, RIGHT |-> 39, DOWN |-> 40]

\* InputManager.isKeyDown
isKeyDown(Z, key) == key \in Z.keys

\* KeyboardMovementBehaviour.update of behaviour b of node owner
KeyboardMovementBehaviour_update(Z, owner, b) ==
  LET Z1 == IF isKeyDown(Z, Keys.LEFT)
            THEN [Z EXCEPT !.nodes[owner].transform.position.x = @ - b.speed]
            ELSE Z
      Z2 == IF isKeyDown(Z1, Keys.RIGHT)
            THEN [Z1 EXCEPT !.nodes[owner].transform.position.x = @ + b.speed]
            ELSE Z1
      Z3 == IF isKeyDown(Z2, Keys.UP)
            THEN [Z2 EXCEPT !.nodes[owner].transform.position.y = @ - b.speed]
            ELSE Z2
      Z4 == IF isKeyDown(Z3, Keys.DOWN)
            THEN [Z3 EXCEPT !.nodes[owner].transform.position.y = @ + b.speed]
            ELSE Z3
  IN Note(Z4, "behaviour.update", owner, b.name)

RECURSIVE SimObject_load(_, _)
RECURSIVE SimObject_updateReady(_, _)
RECURSIVE SimObject_update(_, _)
RECURSIVE SimObject_render(_, _)
RECURSIVE forEach(_, _, _, _)

\* `for (let c of list)` over the components, behaviours or children of
\* node this, from index i on; a throw ends the loop
forEach(Z, this, what, i) ==
  LET list == CASE what \in {"load", "componentReady", "componentUpdate",
                             "componentRender"} -> Z.nodes[this].components
                []  what \in {"behaviourReady", "behaviourUpdate"} ->
                      Z.nodes[this].behaviours
                []  OTHER -> Z.nodes[this].children
  IN IF Z.thrown \/ i > Len(list) THEN Z
     ELSE LET e == list[i]
              Z1 == CASE what = "load" ->
                       IF e.type = "collision"
                       THEN CollisionComponent_load(
                              Note(Z, "component.load", this, e.name),
                              this, e.name)
                       ELSE Note(Z, "component.load", this, e.name)
                      [] what = "componentReady" ->
                           Note(Z, "component.updateReady", this, e.name)
                      [] what = "componentUpdate" ->
                           Note(Z, "component.update", this, e.name)
                      [] what = "componentRender" ->
                           Note(Z, "component.render", this, e.name)
                      [] what = "behaviourUpdate" ->
                           IF e.type = "keyboardMovement"
                           THEN KeyboardMovementBehaviour_update(Z, this, e)
                           ELSE Note(Z, "behaviour.update", this, e.name)
                      [] what = "behaviourReady" ->
                           \* PlayerBehaviour.updateReady
                           IF /\ e.type = "player"
                              /\ ~ \E k \in 1..Len(Z.nodes[this].components) :
                                     Z.nodes[this].components[k].name
                                       = e.animatedSpriteName
                           THEN throw(Note(Z, "behaviour.updateReady", this,
                                           e.name),
                                      "AnimatedSpriteComponent is not attached")
                           ELSE Note(Z, "behaviour.updateReady", this, e.name)
                      [] what = "childLoad" -> SimObject_load(Z, e)
                      [] what = "childReady" -> SimObject_updateReady(Z, e)
                      [] what = "childUpdate" -> SimObject_update(Z, e)
                      [] OTHER -> SimObject_render(Z, e)
          IN forEach(Z1, this, what, i + 1)

\* SimObject.load
SimObject_load(Z, this) ==
  LET Z1 == Note([Z EXCEPT !.nodes[this].isLoaded = TRUE],
                 "isLoaded", this, "")
      Z2 == forEach(Z1, this, "load", 1)
  IN forEach(Z2, this, "childLoad", 1)

\* SimObject.updateReady
SimObject_updateReady(Z, this) ==
  LET Z1 == forEach(Z, this, "componentReady", 1)
      Z2 == forEach(Z1, this, "behaviourReady", 1)
  IN forEach(Z2, this, "childReady", 1)

\* SimObject.updateWorldMatrix: the new value of _worldMatrix
updateWorldMatrix(localMatrix, parentWorldMatrix) ==
  IF parentWorldMatrix # Undefined
  THEN Matrix4x4_multiply(parentWorldMatrix, localMatrix)
  ELSE localMatrix

\* SimObject.update with the children's loop ahead of the components' and
\* the behaviours' loops
SimObject_update_ChildrenFirst(Z, this) ==
  LET n == Z.nodes[this]
      local == Transform_getTransformationMatrix(n.transform)
      world == updateWorldMatrix(local,
                                 IF n.parent # 0
                                 THEN Z.nodes[n.parent].worldMatrix
                                 ELSE Undefined)
      Z0 == Note([Z EXCEPT !.nodes[this].localMatrix = local],
                 "localMatrix", this, "")
      Z1 == Note([Z0 EXCEPT !.nodes[this].worldMatrix = world],
                 "worldMatrix", this, "")
      Z2 == forEach(Z1, this, "childUpdate", 1)
      Z3 == forEach(Z2, this, "componentUpdate", 1)
  IN forEach(Z3, this, "behaviourUpdate", 1)

\* SimObject.update that runs the components and the behaviours before it
\* computes the matrices
SimObject_update_BehavioursFirst(Z, this) ==
  LET Z2 == forEach(Z, this, "componentUpdate", 1)
      Z3 == forEach(Z2, this, "behaviourUpdate", 1)
      n == Z3.nodes[this]
      local == Transform_getTransformationMatrix(n.transform)
      world == updateWorldMatrix(local,
                                 IF n.parent # 0
                                 THEN Z3.nodes[n.parent].worldMatrix
                                 ELSE Undefined)
      Z4 == Note([Z3 EXCEPT !.nodes[this].localMatrix = local],
                 "localMatrix", this, "")
      Z5 == Note([Z4 EXCEPT !.nodes[this].worldMatrix = world],
                 "worldMatrix", this, "")
  IN forEach(Z5, this, "childUpdate", 1)

\* SimObject.update
SimObject_update(Z, this) ==
  LET n == Z.nodes[this]
      local == Transform_getTransformationMatrix(n.transform)
      world == updateWorldMatrix(local,
                                 IF n.parent # 0
                                 THEN Z.nodes[n.parent].worldMatrix
                                 ELSE Undefined)
      Z0 == Note([Z EXCEPT !.nodes[this].localMatrix = local],
                 "localMatrix", this, "")
      Z1 == Note([Z0 EXCEPT !.nodes[this].worldMatrix = world],
                 "worldMatrix", this, "")
      Z2 == forEach(Z1, this, "componentUpdate", 1)
      Z3 == forEach(Z2, this, "behaviourUpdate", 1)
  IN forEach(Z3, this, "childUpdate", 1)

\* SimObject.render
SimObject_render(Z, this) ==
  LET Z1 == forEach(Z, this, "componentRender", 1)
  IN forEach(Z1, this, "childRender", 1)

\* Scene.load, Scene.update, Scene.render
Scene_load(Z) ==
  SimObject_load([Z EXCEPT !.trace = Append(@, [ev |-> "Scene.load"])], 1)

Scene_update(Z, time) ==
  SimObject_update([Z EXCEPT !.trace = Append(@, [ev |-> "Scene.update"])], 1)

Scene_render(Z) ==
  SimObject_render([Z EXCEPT !.trace = Append(@, [ev |-> "Scene.render"])], 1)

(***************************************************************************)
(* ComponentManager, BehaviourManager                                       *)
(***************************************************************************)
\* ComponentManager.registerBuilder
ComponentManager_registerBuilder(W, type) == [W EXCEPT !.cb = @ \cup {type}]

\* BehaviourManager.registerBuilder
BehaviourManager_registerBuilder(W, type) == [W EXCEPT !.bb = @ \cup {type}]

\* IComponentBuilder.buildFromJson, IBehaviourBuilder.buildFromJson: the
\* instance, known by the configuration it was built from
buildFromJson(json) == json

\* `return x`: the value a call hands back
return(W, value) == [W EXCEPT !.ret = value]

\* ComponentManager.extractComponent
ComponentManager_extractComponent(W, json) ==
  IF "type" \in DOMAIN json /\ json.type \in W.cb
  THEN return(W, buildFromJson(json))
  ELSE throw(W, "Component manager error - type missing or builder is not registered")

\* BehaviourManager.extractBehaviour
BehaviourManager_extractBehaviour(W, json) ==
  IF "type" \in DOMAIN json
  THEN IF json.type \in W.bb
       THEN return(W, buildFromJson(json))
       ELSE throw(W, "Behaviour manager error - type missing or behaviour is not registered")
  ELSE return(W, Undefined)

\* KoruTSEngine.start: the builders it registers
registerBuilders(W) ==
  LET W1 == ComponentManager_registerBuilder(W, "sprite")
      W2 == ComponentManager_registerBuilder(W1, "animatedSprite")
      W3 == ComponentManager_registerBuilder(W2, "collision")
      W4 == BehaviourManager_registerBuilder(W3, "rotation")
      W5 == BehaviourManager_registerBuilder(W4, "keyboardMovement")
  IN BehaviourManager_registerBuilder(W5, "player")

(***************************************************************************)
(* Zone                                                                     *)
(***************************************************************************)
\* loadSimObject: `new SimObject(this._globalID, name, this._scene)` made
\* node this
constructed(Z, this) ==
  [Z EXCEPT !.trace = Append(@, [ev |-> "new SimObject", node |-> this])]

\* loadSimObject: `parent.addChild(simObject)` is called
attached(Z, parent, this) ==
  [Z EXCEPT !.trace = Append(@, [ev |-> "addChild", node |-> parent,
                                 child |-> this])]

RECURSIVE loadSimObject(_, _, _)
RECURSIVE loadChildren(_, _, _, _)
RECURSIVE addAll(_, _, _, _)

\* the loops of loadSimObject over dataSection.components and .behaviours
addAll(Z, this, list, isComponent) ==
  IF Z.thrown \/ list = << >> THEN Z
  ELSE LET Z1 == IF isComponent
                 THEN ComponentManager_extractComponent(Z, Head(list))
                 ELSE BehaviourManager_extractBehaviour(Z, Head(list))
           Z2 == IF Z1.thrown THEN Z1
                 ELSE IF isComponent THEN addComponent(Z1, this, Z1.ret)
                 ELSE addBehavour(Z1, this, Z1.ret)
       IN addAll(Z2, this, Tail(list), isComponent)

\* the loop of loadSimObject (and of Zone.initialize) over the objects
loadChildren(Z, list, i, parent) ==
  IF Z.thrown \/ i > Len(list) THEN Z
  ELSE loadChildren(loadSimObject(Z, list[i], parent), list, i + 1, parent)

\* loadSimObject that attaches the node to its parent before it builds
\* the node's children
loadSimObject_AttachFirst(Z, dataSection, parent) ==
  LET id == Z.gid + 1
      this == Len(Z.nodes) + 1
      new == SimObject(id, dataSection.name, TRUE)
      simObject == IF "transform" \in DOMAIN dataSection
                   THEN [new EXCEPT !.transform =
                           Transform_setFromJson(@, dataSection.transform)]
                   ELSE new
      Z1 == constructed([Z EXCEPT !.gid = id,
                                  !.nodes = Append(@, simObject)], this)
      Z2 == addAll(Z1, this, dataSection.components, TRUE)
      Z3 == addAll(Z2, this, dataSection.behaviours, FALSE)
      Z4 == IF ~ Z3.thrown /\ parent # 0
            THEN addChild(attached(Z3, parent, this), parent, this)
            ELSE Z3
  IN loadChildren(Z4, dataSection.children, 1, this)

\* Zone.loadSimObject
loadSimObject(Z, dataSection, parent) ==
  LET id == Z.gid + 1
      this == Len(Z.nodes) + 1
      new == SimObject(id, dataSection.name, TRUE)
      simObject == IF "transform" \in DOMAIN dataSection
                   THEN [new EXCEPT !.transform =
                           Transform_setFromJson(@, dataSection.transform)]
                   ELSE new
      Z1 == constructed([Z EXCEPT !.gid = id,
                                  !.nodes = Append(@, simObject)], this)
      Z2 == addAll(Z1, this, dataSection.components, TRUE)
      Z3 == addAll(Z2, this, dataSection.behaviours, FALSE)
      Z4 == loadChildren(Z3, dataSection.children, 1, this)
  IN IF ~ Z4.thrown /\ parent # 0
     THEN addChild(attached(Z4, parent, this), parent, this)
     ELSE Z4

\* Zone.initialize
Zone_initialize(Z, zoneData) ==
  IF ~ zoneData.hasObjects
  THEN throw(Z, "Zone initialization error: 'objects' not present")
  ELSE loadChildren(Z, zoneData.objects, 1, 1)

\* Zone.load after `this._state = ZoneState.LOADING; this._scene.load()`
\* returned or threw
updateReadyPass(Z) ==
  IF Z.thrown THEN Z ELSE SimObject_updateReady(Z, 1)

\* Zone.load after `this._scene.root.updateReady()` returned or threw
setUpdating(Z) ==
  IF Z.thrown THEN Z ELSE [Z EXCEPT !.zs = UPDATING]

\* Zone.load with the updateReady pass ahead of the load pass
Zone_load_ReadyFirst(Z) ==
  setUpdating(IF updateReadyPass([Z EXCEPT !.zs = LOADING]).thrown
              THEN updateReadyPass([Z EXCEPT !.zs = LOADING])
              ELSE Scene_load(updateReadyPass([Z EXCEPT !.zs = LOADING])))

\* Zone.load
Zone_load(Z) ==
  setUpdating(updateReadyPass(Scene_load([Z EXCEPT !.zs = LOADING])))

\* Zone.unLoad, Zone.onActivated, Zone.onDeactivated
Zone_unLoad(Z) == Z

Zone_onActivated(Z) == Z

Zone_onDeactivated(Z) == Z

\* update that does not look at the state
Zone_update_Always(Z, time) == Scene_update(Z, time)

\* Zone.update
Zone_update(Z, time) ==
  IF Z.zs = UPDATING THEN Scene_update(Z, time) ELSE Z

\* Zone.render
Zone_render(Z) ==
  IF Z.zs = UPDATING THEN Scene_render(Z) ELSE Z

(***************************************************************************)
(* AssetManager, JsonAssetLoader                                            *)
(***************************************************************************)
\* assetName.split(".").pop()?.toLowerCase()
extension(assetName) == CASE assetName = testZone -> "json"

JsonAsset(name, assetData) == [name |-> name, data |-> assetData]

\* new JsonAssetLoader()
JsonAssetLoader == [supportedExtensions |-> << "json" >>]

\* JsonAssetLoader.loadAsset: a request is sent
JsonAssetLoader_loadAsset(W, assetName) ==
  [W EXCEPT !.requests = Append(@, assetName)]

AssetManager_registerLoader(W, loader) ==
  [W EXCEPT !.loaders = Append(@, loader)]

AssetManager_loadAsset(W, assetName) ==
  LET W1 == [W EXCEPT !.trace =
               Append(@, [ev |-> "AssetManager.loadAsset",
                          name |-> assetName])]
  IN IF \E l \in 1..Len(W.loaders) :
          indexOf(W.loaders[l].supportedExtensions, extension(assetName)) # 0
     THEN JsonAssetLoader_loadAsset(W1, assetName)
     ELSE warn(W1, "Unable to load asset: no loader associated with it")

AssetManager_isAssetLoaded(W, assetName) == assetName \in DOMAIN W.loadAssets

\* AssetManager.getAsset of an asset that is loaded
AssetManager_getAsset(W, assetName) ==
  IF assetName \in DOMAIN W.loadAssets THEN W.loadAssets[assetName]
  ELSE Undefined

AssetManager_onAssetLoaded(W, asset) ==
  LET W1 == [W EXCEPT !.loadAssets =
               [n \in DOMAIN @ \cup {asset.name} |->
                  IF n = asset.name THEN asset ELSE @[n]]]
  IN send(W1, MESSAGE_ASSET_LOADER_ASSET_LOADED \o asset.name,
          "AssetManager", asset)

(***************************************************************************)
(* ZoneManager                                                              *)
(***************************************************************************)
\* ZoneManager.initialize
ZoneManager_initialize(W) ==
  [W EXCEPT !.registered = @ @@ (0 :> testZone)]

\* new Zone(id, name, description), with the Scene and the root it makes
Zone(W) ==
  [W EXCEPT !.zs = UNINITIALIZED, !.gid = -1,
            !.nodes = << SimObject(0, "__ROOT__", TRUE) >>,
            !.trace = Append(@, [ev |-> "new Zone"])]

\* loadZone: `ZoneManager._activeZone.initialize(zoneData)`
initializeZone(W, zoneData) ==
  Zone_initialize(Note(W, "Zone.initialize", 0, ""), zoneData)

\* loadZone: `ZoneManager._activeZone.onActivated()`
activateZone(W) ==
  IF W.thrown THEN W
  ELSE Zone_onActivated(Note(W, "Zone.onActivated", 0, ""))

\* loadZone: `ZoneManager._activeZone.load()`
loadActiveZone(W) ==
  IF W.thrown THEN W ELSE Zone_load(Note(W, "Zone.load", 0, ""))

\* loadZone that makes the zone the active zone once it is loaded
loadZone_ActiveLast(W, asset) ==
  IF "id" \notin DOMAIN asset.data
  THEN throw(W, "Zone file format exception: Zone ID not present.")
  ELSE IF "name" \notin DOMAIN asset.data
  THEN throw(W, "Zone file format exception: Zone name not present.")
  ELSE LET W1 == loadActiveZone(activateZone(
                   initializeZone(Zone(W), asset.data)))
       IN IF W1.thrown THEN W1 ELSE [W1 EXCEPT !.active = TRUE]

\* ZoneManager.loadZone
loadZone(W, asset) ==
  IF "id" \notin DOMAIN asset.data
  THEN throw(W, "Zone file format exception: Zone ID not present.")
  ELSE IF "name" \notin DOMAIN asset.data
  THEN throw(W, "Zone file format exception: Zone name not present.")
  ELSE loadActiveZone(activateZone(
         initializeZone([Zone(W) EXCEPT !.active = TRUE], asset.data)))

\* the part of changeZone that takes the active zone down
deactivate(W) ==
  IF W.active
  THEN [Zone_unLoad(Zone_onDeactivated(W)) EXCEPT !.active = FALSE]
  ELSE W

\* changeRegistered that subscribes and never asks for the asset
changeRegistered_NoFetch(W, id) ==
  LET assetName == W.registered[id]
  IN IF AssetManager_isAssetLoaded(W, assetName)
     THEN LET asset == AssetManager_getAsset(W, assetName)
          IN IF asset # Undefined THEN loadZone(W, asset) ELSE W
     ELSE addSubscription(W, MESSAGE_ASSET_LOADER_ASSET_LOADED
                               \o assetName, "zoneManager")

\* the part of changeZone for a registered id
changeRegistered(W, id) ==
  LET assetName == W.registered[id]
  IN IF AssetManager_isAssetLoaded(W, assetName)
     THEN LET asset == AssetManager_getAsset(W, assetName)
          IN IF asset # Undefined THEN loadZone(W, asset) ELSE W
     ELSE AssetManager_loadAsset(
            addSubscription(W, MESSAGE_ASSET_LOADER_ASSET_LOADED
                                 \o assetName, "zoneManager"),
            assetName)

\* changeZone without the test of the id
ZoneManager_changeZone_NoIdTest(W, id) ==
  LET W1 == deactivate(W)
  IN IF id \in DOMAIN W1.registered THEN changeRegistered(W1, id)
     ELSE AssetManager_loadAsset(W1, testZone)

\* ZoneManager.changeZone
ZoneManager_changeZone(W, id) ==
  LET W1 == deactivate(W)
  IN IF id \in DOMAIN W1.registered THEN changeRegistered(W1, id)
     ELSE throw(W1, "Zone ID does not exist.")

\* ZoneManager.update
ZoneManager_update(W, time) ==
  IF W.active THEN Zone_update(W, time) ELSE W

\* ZoneManager.render
ZoneManager_render(W) ==
  IF W.active THEN Zone_render(W) ELSE W

RECURSIVE loadZones(_)
\* the calls of loadZone that ZoneManager.onMessage made, in their order
loadZones(W) ==
  IF W.loads = << >> THEN W
  ELSE loadZones(loadZone([W EXCEPT !.loads = Tail(@)], Head(W.loads)))

(***************************************************************************)
(* MaterialManager                                                          *)
(***************************************************************************)
\* the names of the materials of the game
MaterialNames == {"crate", "duck"}

\* new Material(name, ...)
Material(name) == [name |-> name]

\* new MaterialReferenceNode(material)
MaterialReferenceNode(material) == [material |-> material, referenceCount |-> 1]

\* MaterialManager.registerMaterial
registerMaterial(W, material) ==
  IF material.name \notin DOMAIN W.materials
  THEN [W EXCEPT !.materials =
          @ @@ (material.name :> MaterialReferenceNode(material))]
  ELSE W

\* MaterialManager.getMaterial
getMaterial(W, materialName) ==
  IF materialName \notin DOMAIN W.materials
  THEN return(W, Undefined)
  ELSE return([W EXCEPT !.materials[materialName].referenceCount = @ + 1],
              W.materials[materialName].material)

\* the cache without the entry of a name
delete(ms, name) == [n \in DOMAIN ms \ {name} |-> ms[n]]

\* MaterialManager.releaseMaterial
releaseMaterial(W, materialName) ==
  IF materialName \notin DOMAIN W.materials
  THEN warn(W, "Cannot release a material which has not been registered")
  ELSE IF W.materials[materialName].referenceCount - 1 < 1
       THEN [Note(W, "Material.destroy", 0, materialName)
               EXCEPT !.materials = delete(@, materialName)]
       ELSE [W EXCEPT !.materials[materialName].referenceCount = @ - 1]

(***************************************************************************)
(* KoruTSEngine                                                             *)
(***************************************************************************)
\* a call of the engine with the frame's delta
step(W, ev, delta) ==
  [W EXCEPT !.trace = Append(@, [ev |-> ev, time |-> delta])]

\* update that drains the message queue after the collision tick
KoruTSEngine_update_DrainLast(W, delta) ==
  CHOOSE W3 \in
    {loadZones(MessageBus_update(step(W2, "MessageBus.update", delta), delta)) :
       W2 \in {CollisionManager_update(
                 step(W1, "CollisionManager.update", delta), delta) :
         W1 \in {ZoneManager_update(
                   step(W0, "ZoneManager.update", delta), delta) :
                   W0 \in {W}}}} : TRUE

\* KoruTSEngine.update: the three calls in turn, each on the state the call
\* before it left
KoruTSEngine_update(W, delta) ==
  CHOOSE W3 \in
    {CollisionManager_update(step(W2, "CollisionManager.update", delta), delta) :
       W2 \in {ZoneManager_update(step(W1, "ZoneManager.update", delta), delta) :
         W1 \in {loadZones(MessageBus_update(
                   step(W0, "MessageBus.update", delta), delta)) :
                   W0 \in {W}}}} : TRUE

(***************************************************************************)
(* Actions of the message bus                                               *)
(***************************************************************************)
NoMessage == Message("", "", Undefined, NORMAL, -1)

\* the record kept of an operation: its name, the message it posts, the
\* delta it is given, and the calls it made
Op(name, message, delta) ==
  [op |-> name, message |-> message, delta |-> delta, thrown |-> FALSE,
   trace |-> <<>>]

Commit(W, o) ==
  \E Z \in {W} :
    /\ subscription' = Z.sub
    /\ normalMessageQueue' = Z.queue
    /\ isAlive' = Z.alive
    /\ nextId' = Z.nid
    /\ collisionComponents' = Z.cc
    /\ collisionData' = Z.cd
    /\ totalTime' = Z.tt
    /\ shapePosition' = Z.pos
    /\ zoneState' = Z.zs
    /\ globalID' = Z.gid
    /\ nodes' = Z.nodes
    /\ registeredZones' = Z.registered
    /\ activeZone' = Z.active
    /\ loaders' = Z.loaders
    /\ loadAssets' = Z.loadAssets
    /\ requests' = Z.requests
    /\ componentBuilders' = Z.cb
    /\ behaviourBuilders' = Z.bb
    /\ keys' = Z.keys
    /\ materials' = Z.materials
    /\ held' = Z.held
    /\ last' = [o EXCEPT !.trace = Z.trace, !.thrown = Z.thrown]

\* the codes and contexts the host posts in the message-bus runs
BusCodes == {"COLLISION_ENTRY: player", "PLAYER_DIED"}

BusContexts(code) ==
  IF code = "COLLISION_ENTRY: player"
  THEN {[a |-> "player", b |-> "ground", time |-> 0]}
  ELSE {Undefined}

AddSubscription(code, handler) ==
  Commit(addSubscription(World, code, handler),
         Op("addSubscription", NoMessage, << code, handler >>))

RemoveSubscription(code, handler) ==
  Commit(removeSubscription(World, code, handler),
         Op("removeSubscription", NoMessage, << code, handler >>))

Send(code, context) ==
  /\ Commit(send(World, code, "host", context),
            Op("post", Message(code, "host", context, NORMAL, nextId), 0))

SendPriority(code, context) ==
  /\ Commit(sendPriority(World, code, "host", context),
            Op("post", Message(code, "host", context, HIGH, nextId), 0))

Update ==
  Commit(MessageBus_update(World, 0), Op("update", NoMessage, 0))

Init ==
  /\ subscription = << >>
  /\ normalMessageQueue = << >>
  /\ isAlive = TRUE
  /\ nextId = 0
  /\ collisionComponents = << >>
  /\ collisionData = << >>
  /\ totalTime = 0
  /\ shapePosition = InitialPosition
  /\ zoneState = UNINITIALIZED
  /\ globalID = -1
  /\ nodes = << SimObject(0, "__ROOT__", TRUE) >>
  /\ registeredZones = << >>
  /\ activeZone = FALSE
  /\ loaders = << >>
  /\ loadAssets = << >>
  /\ requests = << >>
  /\ componentBuilders = {}
  /\ behaviourBuilders = {}
  /\ keys = {}
  /\ materials = << >>
  /\ held = [name \in MaterialNames |-> 0]
  /\ last = [op |-> "init", message |-> NoMessage, delta |-> 0,
             thrown |-> FALSE, trace |-> << >>]

BusNext ==
  \/ \E code \in BusCodes, handler \in Handlers : AddSubscription(code, handler)
  \/ \E code \in BusCodes, handler \in Handlers : RemoveSubscription(code, handler)
  \/ /\ nextId < MaxPosts
     /\ \E code \in BusCodes : \E context \in BusContexts(code) : Send(code, context)
  \/ /\ nextId < MaxPosts
     /\ \E code \in BusCodes : \E context \in BusContexts(code) : SendPriority(code, context)
  \/ Update

SpecBus == Init /\ [][BusNext]_vars

\* A burst of NORMAL collision messages posted by the host to a growing set
\* of subscribers, drained by MessageBus.update
DrainNext ==
  \/ \E code \in BusCodes, handler \in Handlers : AddSubscription(code, handler)
  \/ /\ nextId < MaxDrainPosts
     /\ \E context \in BusContexts("COLLISION_ENTRY: player") :
          Send("COLLISION_ENTRY: player", context)
  \/ Update

SpecDrain == Init /\ [][DrainNext]_vars

\* handlers whose onMessage changes the subscriptions of the code of the
\* message: one that unsubscribes itself, one that subscribes the listener
ReentrantHandlers == {"leaver", "inviter", "listener"}

ReentrantNext ==
  \/ \E handler \in ReentrantHandlers : AddSubscription("PLAYER_DIED", handler)
  \/ \E handler \in ReentrantHandlers :
       RemoveSubscription("PLAYER_DIED", handler)
  \/ /\ nextId < MaxPosts
     /\ SendPriority("PLAYER_DIED", Undefined)

SpecReentrant == Init /\ [][ReentrantNext]_vars

(***************************************************************************)
(* Actions of the collision engine                                          *)
(***************************************************************************)
\* the tick deltas the engine passes (performance.now() differences)
Deltas == {0, 1}

\* the subscriptions made by the handlers of the modelled zone
CollisionSubscriptions ==
  {<<"COLLISION_ENTRY: player", "player">>,
   <<"COLLISION_EXIT: ground", "listener">>}

RegisterCollisionComponent(component) ==
  /\ Len(collisionComponents) < MaxRegistered
  /\ Commit(registerCollisionComponent(World, component),
            Op("register", NoMessage, 0))

UnRegisterCollisionComponent(component) ==
  Commit(unRegisterCollisionComponent(World, component),
         Op("unregister", NoMessage, 0))

Clear == Commit(clear(World), Op("clear", NoMessage, 0))

\* CollisionComponent.update: the shape follows its owner
MoveShape(component, p) ==
  /\ shapePosition[component] # p
  /\ Commit([World EXCEPT !.pos[component] = p],
            Op("move", NoMessage, 0))

Tick(delta) ==
  /\ totalTime + delta <= MaxTime
  /\ Commit(CollisionManager_update(World, delta),
            Op("tick", NoMessage, delta))

CollisionNext ==
  \/ \E s \in CollisionSubscriptions : AddSubscription(s[1], s[2])
  \/ \E c \in Components : RegisterCollisionComponent(c)
  \/ \E c \in Components : UnRegisterCollisionComponent(c)
  \/ Clear
  \/ \E c \in Components : \E p \in Positions(c) : MoveShape(c, p)
  \/ \E delta \in Deltas : Tick(delta)

SpecCollision == Init /\ [][CollisionNext]_vars

(***************************************************************************)
(* Properties of the message bus                                            *)
(***************************************************************************)
\* the handler invocations among the calls of an operation, in order
Deliveries(trace) == SelectSeq(trace, LAMBDA e : e.ev = "onMessage")

NoDuplicates(s) == \A i, j \in 1..Len(s) : i # j => s[i] # s[j]

\* the handler list of a code before the step, empty when it has none
HandlersOf(code) ==
  IF code \in DOMAIN subscription THEN subscription[code] ELSE << >>

PairsFor(message, handlers) ==
  [i \in 1..Len(handlers) |-> MessageSubscriptionNode(message, handlers[i])]

\* C1: a call of MessageBus.update that starts with L queued pairs delivers
\* exactly the min(10, L) oldest pairs, in queue order; the other pairs stay
\* queued in their order, and a pair that a handler enqueues during the call
\* is not delivered by that call.
C1_DrainDeliversOldestTen ==
  [][last'.op = "update" =>
       LET L == Len(normalMessageQueue)
           n == Min(10, L)
           d == Deliveries(last'.trace)
       IN /\ Len(d) = n
          /\ \A i \in 1..n :
               /\ d[i].handler = normalMessageQueue[i].handler
               /\ d[i].message = normalMessageQueue[i].message
          /\ Len(normalMessageQueue') >= L - n
          /\ SubSeq(normalMessageQueue', 1, L - n)
               = SubSeq(normalMessageQueue, n + 1, L)
          /\ \A j \in (L - n + 1)..Len(normalMessageQueue') :
               \A i \in 1..Len(d) :
                 d[i].message # normalMessageQueue'[j].message
  ]_vars

\* a drain that hit the cap: ten pairs delivered, older pairs left behind
\* and a pair enqueued by a handler during the drain still queued
C1_Witness ==
  /\ last.op = "update"
  /\ Len(Deliveries(last.trace)) = 10
  /\ \E i \in 1..Len(last.trace) : last.trace[i].ev = "post"
  /\ Len(normalMessageQueue) >= 3

\* C2: a handler occurs at most once in the handler list of a code, so no
\* (message, handler) pair is queued twice and no operation delivers a
\* message twice to one handler.
C2_HandlerSubscribedOnce ==
  /\ \A code \in DOMAIN subscription : NoDuplicates(subscription[code])
  /\ NoDuplicates(normalMessageQueue)
  /\ NoDuplicates(Deliveries(last.trace))

\* a duplicate subscription was attempted (and warned about) on a code that
\* has two handlers
C2_Witness ==
  /\ last.op = "addSubscription"
  /\ \E i \in 1..Len(last.trace) : last.trace[i].ev = "warn"
  /\ \E code \in DOMAIN subscription : Len(subscription[code]) = 2

\* C3: a HIGH post invokes onMessage of every subscribed handler, in
\* subscription order, within the post, and queues no pair of that message;
\* a NORMAL post invokes no handler and appends one pair per subscribed
\* handler, in subscription order, to the queue.
C3_PostHighInlineNormalQueued ==
  [][last'.op = "post" =>
       LET m == last'.message
           hs == HandlersOf(m.code)
           d == SelectSeq(last'.trace,
                          LAMBDA e : e.ev = "onMessage" /\ e.message = m)
       IN IF m.priority = HIGH
          THEN /\ Len(d) = Len(hs)
               /\ \A i \in 1..Len(hs) : d[i].handler = hs[i]
               /\ \A j \in 1..Len(normalMessageQueue') :
                    /\ normalMessageQueue'[j].message # m
                    /\ normalMessageQueue'[j].message.priority = NORMAL
               /\ Len(normalMessageQueue') >= Len(normalMessageQueue)
               /\ SubSeq(normalMessageQueue', 1, Len(normalMessageQueue))
                    = normalMessageQueue
          ELSE /\ Deliveries(last'.trace) = << >>
               /\ normalMessageQueue' = normalMessageQueue \o PairsFor(m, hs)
  ]_vars

\* a HIGH post that was delivered inline to two handlers
C3_Witness ==
  /\ last.op = "post"
  /\ last.message.priority = HIGH
  /\ Len(Deliveries(last.trace)) >= 2

(***************************************************************************)
(* Properties of the collision engine                                       *)
(***************************************************************************)
Registered(c) ==
  \E i \in 1..Len(collisionComponents) : collisionComponents[i] = c

\* the indices of the records of the unordered pair {x, y}
PairRecords(cd, x, y) ==
  {d \in 1..Len(cd) : {cd[d].a, cd[d].b} = {x, y}}

\* the pair is found intersecting by a tick in the current positions
Hit(x, y) ==
  \/ intersects(shape(World, x), shape(World, y))
  \/ intersects(shape(World, y), shape(World, x))

\* the number of calls of callback ev of component self about other
Count(trace, ev, self, other) ==
  Cardinality({i \in 1..Len(trace) :
                 /\ trace[i].ev = ev
                 /\ trace[i].self = self
                 /\ trace[i].other = other})

\* C4: in a tick with positive delta, for two registered components that
\* are not both static: not intersecting and no record gives no event;
\* intersecting and no record creates one record and calls each entry
\* callback once; intersecting with a record calls the update callbacks and
\* no entry callback; not intersecting with a record calls each exit
\* callback once and removes the record.
C4_EntryUpdateExitLifecycle ==
  [][(last'.op = "tick" /\ last'.delta > 0) =>
       \A x, y \in Components :
         (/\ x # y
          /\ Registered(x)
          /\ Registered(y)
          /\ ~ (isStatic(x) /\ isStatic(y))) =>
           LET had == PairRecords(collisionData, x, y) # {}
               hit == Hit(x, y)
               t == last'.trace
               after == Cardinality(PairRecords(collisionData', x, y))
           IN /\ (~ hit /\ ~ had) =>
                   /\ after = 0
                   /\ Count(t, "onCollisionEntry", x, y) = 0
                   /\ Count(t, "onCollisionUpdate", x, y) = 0
                   /\ Count(t, "onCollisionExit", x, y) = 0
              /\ (hit /\ ~ had) =>
                   /\ after = 1
                   /\ Count(t, "onCollisionEntry", x, y) = 1
                   /\ Count(t, "onCollisionExit", x, y) = 0
              /\ (hit /\ had) =>
                   /\ after = 1
                   /\ Count(t, "onCollisionEntry", x, y) = 0
                   /\ Count(t, "onCollisionUpdate", x, y) >= 1
                   /\ Count(t, "onCollisionExit", x, y) = 0
              /\ (~ hit /\ had) =>
                   /\ after = 0
                   /\ Count(t, "onCollisionEntry", x, y) = 0
                   /\ Count(t, "onCollisionUpdate", x, y) = 0
                   /\ Count(t, "onCollisionExit", x, y) = 1
  ]_vars

\* a tick with positive delta that ended a collision of two registered
\* components
C4_Witness ==
  /\ last.op = "tick"
  /\ last.delta > 0
  /\ \E i \in 1..Len(last.trace) :
       /\ last.trace[i].ev = "onCollisionExit"
       /\ Registered(last.trace[i].self)
       /\ Registered(last.trace[i].other)

\* C5: the record list holds at most one record per unordered pair of
\* components and no record that pairs a component with itself.
C5_OneRecordPerPair ==
  \A i, j \in 1..Len(collisionData) :
    /\ collisionData[i].a # collisionData[i].b
    /\ i # j => {collisionData[i].a, collisionData[i].b}
                  # {collisionData[j].a, collisionData[j].b}

\* two records live, both refreshed by a tick that met each pair in both
\* orders
C5_Witness ==
  /\ last.op = "tick"
  /\ Len(collisionData) = 2
  /\ \E i \in 1..Len(last.trace) : last.trace[i].ev = "onCollisionUpdate"

\* C6: after unRegisterCollisionComponent(c), c is not in the list of
\* active collision components.
C6_UnregisterRemoves ==
  [][\A c \in Components :
       UnRegisterCollisionComponent(c) => ~ Registered(c)']_vars

\* C7: after any tick, delta = 0 included, every remaining record belongs
\* to a pair that the tick found intersecting.
C7_NoStaleRecordAfterTick ==
  last.op = "tick" =>
    \A d \in 1..Len(collisionData) :
      \E i \in 1..Len(last.trace) :
        /\ last.trace[i].ev = "intersects"
        /\ last.trace[i].result
        /\ {last.trace[i].self, last.trace[i].other}
             = {collisionData[d].a, collisionData[d].b}

\* the messages posted by an operation with context col, as trace indices
PostsAbout(trace, col) ==
  {k \in 1..Len(trace) : trace[k].ev = "post" /\ trace[k].message.context = col}

\* message m posted at index k reaches every subscriber of its code after k
DeliveredAfter(trace, k) ==
  LET m == trace[k].message
  IN \A h \in Handlers :
       (\E n \in 1..Len(HandlersOf(m.code)) : HandlersOf(m.code)[n] = h) =>
         \E j \in (k + 1)..Len(trace) :
           /\ trace[j].ev = "onMessage"
           /\ trace[j].handler = h
           /\ trace[j].message = m

\* the two messages of a record event: callbacks at i and i + 1, then
\* exactly two HIGH posts that carry col, one per component name
TwoMessages(trace, i, prefix, col) ==
  LET posts == PostsAbout(trace, col)
  IN /\ Cardinality(posts) = 2
     /\ \E k1, k2 \in posts :
          /\ i + 1 < k1
          /\ k1 < k2
          /\ trace[k1].message.code = prefix \o trace[i].self
          /\ trace[k2].message.code = prefix \o trace[i].other
     /\ \A k \in posts :
          /\ trace[k].message.priority = HIGH
          /\ DeliveredAfter(trace, k)

\* C8: creating a record publishes exactly two HIGH messages
\* "COLLISION_ENTRY: " + name, one per component, and removing a record
\* publishes exactly two HIGH messages "COLLISION_EXIT: " + name; each
\* carries the record and reaches its subscribers within the tick, after
\* the callbacks of both components.
C8_TwoPriorityMessagesPerRecord ==
  last.op = "tick" =>
    LET t == last.trace
    IN \A i \in 1..Len(t) :
         /\ (/\ t[i].ev = "onCollisionEntry"
             /\ i < Len(t)
             /\ t[i + 1].ev = "onCollisionEntry") =>
              TwoMessages(t, i, "COLLISION_ENTRY: ",
                          CollisionData(totalTime, t[i].self, t[i].other))
         /\ (/\ t[i].ev = "onCollisionExit"
             /\ i < Len(t)
             /\ t[i + 1].ev = "onCollisionExit") =>
              \E col \in {CollisionData(time, t[i].self, t[i].other) :
                            time \in 0..totalTime} :
                TwoMessages(t, i, "COLLISION_EXIT: ", col)

\* a tick that created one record and removed another, with the entry
\* message delivered to the player and the exit message to the listener
C8_Witness ==
  /\ last.op = "tick"
  /\ \E j \in 1..Len(last.trace) :
       /\ last.trace[j].ev = "onMessage"
       /\ last.trace[j].message.code = "COLLISION_ENTRY: player"
  /\ \E j \in 1..Len(last.trace) :
       /\ last.trace[j].ev = "onMessage"
       /\ last.trace[j].message.code = "COLLISION_EXIT: ground"

BothStatic(x, y) == x # y /\ isStatic(x) /\ isStatic(y)

\* C9: a pair of components that are both static is never tested and gets
\* no record, no callback and no message.
C9_StaticPairIgnored ==
  /\ \A d \in 1..Len(collisionData) :
       ~ BothStatic(collisionData[d].a, collisionData[d].b)
  /\ \A i \in 1..Len(last.trace) :
       LET e == last.trace[i]
       IN /\ e.ev \in {"intersects", "onCollisionEntry", "onCollisionUpdate",
                      "onCollisionExit"} => ~ BothStatic(e.self, e.other)
          /\ (e.ev = "post" /\ e.message.context # Undefined) =>
               ~ BothStatic(e.message.context.a, e.message.context.b)

\* a tick over two registered static components whose shapes overlap
C9_Witness ==
  /\ last.op = "tick"
  /\ \E x, y \in Components :
       /\ BothStatic(x, y)
       /\ Registered(x)
       /\ Registered(y)
       /\ intersects(shape(World, x), shape(World, y))

(***************************************************************************)
(* Actions of a zone                                                        *)
(***************************************************************************)
\* an object of a zone description
Object(name, position, components, behaviours, children) ==
  [name |-> name, transform |-> [position |-> position],
   components |-> components, behaviours |-> behaviours,
   children |-> children]

SpriteComponent(name) == [type |-> "sprite", name |-> name]

CollisionComponent(name) == [type |-> "collision", name |-> name]

PlayerBehaviour(name, animatedSpriteName) ==
  [type |-> "player", name |-> name,
   animatedSpriteName |-> animatedSpriteName]

\* the zone descriptions: one without 'objects', a parent with two
\* components, two behaviours and a child, and a player whose animated
\* sprite is not attached
ZoneDatas ==
  {[hasObjects |-> FALSE, objects |-> << >>],
   [hasObjects |-> TRUE,
    objects |-> << Object("parent", [x |-> 10],
                          << SpriteComponent("parentSprite"),
                             SpriteComponent("parentShadow") >>,
                          << PlayerBehaviour("parentPlayer", "parentSprite"),
                             PlayerBehaviour("parentKeys", "parentSprite") >>,
                          << Object("child", [x |-> 5, y |-> 0],
                                    << SpriteComponent("childSprite") >>,
                                    << >>, << >>) >>) >>],
   [hasObjects |-> TRUE,
    objects |-> << Object("duck", [x |-> 0], << >>,
                          << PlayerBehaviour("player", "duckSprite") >>,
                          << >>) >>]}

RECURSIVE Size(_)
\* the number of objects of a list of object descriptions
Size(list) ==
  IF list = << >> THEN 0
  ELSE 1 + Size(Head(list).children) + Size(Tail(list))

\* the values a behaviour or the host gives transform.position
Translations == {Vector3(0, 5, 0)}

ZoneInitialize(zoneData) ==
  /\ Len(nodes) + Size(zoneData.objects) <= MaxNodes
  /\ Commit(Zone_initialize(World, zoneData),
            Op("Zone.initialize", NoMessage, zoneData))

ZoneLoad == Commit(Zone_load(World), Op("Zone.load", NoMessage, 0))

ZoneUnLoad == Commit(Zone_unLoad(World), Op("Zone.unLoad", NoMessage, 0))

ZoneOnActivated ==
  Commit(Zone_onActivated(World), Op("Zone.onActivated", NoMessage, 0))

ZoneOnDeactivated ==
  Commit(Zone_onDeactivated(World), Op("Zone.onDeactivated", NoMessage, 0))

ZoneUpdate == Commit(Zone_update(World, 0), Op("Zone.update", NoMessage, 0))

ZoneRender == Commit(Zone_render(World), Op("Zone.render", NoMessage, 0))

RECURSIVE InScene(_, _)
\* node this is the scene's root or below it
InScene(ns, this) ==
  \/ this = 1
  \/ ns[this].parent # 0 /\ InScene(ns, ns[this].parent)

\* a write to the transform of a node of the scene
SetTransform(this, position) ==
  /\ InScene(nodes, this)
  /\ nodes[this].transform.position # position
  /\ Commit([World EXCEPT !.nodes[this].transform.position = position],
            Op("transform", NoMessage, 0))

\* KoruTSEngine.start registers the builders
RegisterBuilders ==
  /\ componentBuilders = {}
  /\ behaviourBuilders = {}
  /\ Commit(registerBuilders(World), Op("registerBuilders", NoMessage, 0))

ZoneNext ==
  \/ RegisterBuilders
  \/ \E zoneData \in ZoneDatas : ZoneInitialize(zoneData)
  \/ ZoneLoad
  \/ ZoneUnLoad
  \/ ZoneOnActivated
  \/ ZoneOnDeactivated
  \/ ZoneUpdate
  \/ ZoneRender
  \/ \E this \in 2..Len(nodes) : \E position \in Translations : SetTransform(this, position)

SpecZone == Init /\ [][ZoneNext]_vars

(***************************************************************************)
(* Actions of a zone whose nodes the keyboard moves                         *)
(***************************************************************************)
KeyboardMovementBehaviour(name, speed) ==
  [type |-> "keyboardMovement", name |-> name, speed |-> speed]

\* a parent that the keyboard moves, with a child
MotionZone ==
  [hasObjects |-> TRUE,
   objects |-> << Object("parent", [x |-> 1],
                         << SpriteComponent("parentSprite") >>,
                         << KeyboardMovementBehaviour("parentKeys", 1) >>,
                         << Object("child", [x |-> 1], << >>, << >>,
                                   << >>) >>) >>]

\* InputManager.onKeyDown, InputManager.onKeyUp
KeyDown(key) ==
  /\ key \notin keys
  /\ Commit([World EXCEPT !.keys = @ \cup {key}], Op("onKeyDown", NoMessage, key))

KeyUp(key) ==
  /\ key \in keys
  /\ Commit([World EXCEPT !.keys = @ \ {key}], Op("onKeyUp", NoMessage, key))

\* a frame of the zone, while its nodes are within MaxTravel of the origin
MotionUpdate ==
  /\ \A n \in 1..Len(nodes) :
       /\ nodes[n].transform.position.x \in -MaxTravel..MaxTravel
       /\ nodes[n].transform.position.y \in -MaxTravel..MaxTravel
  /\ ZoneUpdate

MotionNext ==
  \/ RegisterBuilders
  \/ /\ Len(nodes) = 1
     /\ ZoneInitialize(MotionZone)
  \/ /\ zoneState = UNINITIALIZED
     /\ ZoneLoad
  \/ \E key \in {Keys.LEFT, Keys.UP, Keys.RIGHT, Keys.DOWN} : KeyDown(key)
  \/ \E key \in {Keys.LEFT, Keys.UP, Keys.RIGHT, Keys.DOWN} : KeyUp(key)
  \/ MotionUpdate

SpecMotion == Init /\ [][MotionNext]_vars

(***************************************************************************)
(* Actions of a scene tree the host builds                                  *)
(***************************************************************************)
\* the names the host gives its SimObjects, in the order in which it
\* constructs them, and asks for
Names == {"a", "b"}

NameOf(id) == IF id = 1 THEN "a" ELSE "b"

\* the children of node this, as a set
Kids(ns, this) ==
  {ns[this].children[i] : i \in 1..Len(ns[this].children)}

RECURSIVE Closure(_, _)
\* the nodes that are in S or below a node of S
Closure(ns, S) ==
  LET T == S \cup UNION {Kids(ns, n) : n \in S}
  IN IF T = S THEN S ELSE Closure(ns, T)

\* the descendants of node this
Below(ns, this) == Closure(ns, Kids(ns, this))

\* the call of a method of node this, with its argument
Called(Z, this, arg) ==
  [Z EXCEPT !.trace = Append(@, [ev |-> "call", node |-> this, arg |-> arg])]

\* the value a method returns
Returned(Z, value) ==
  [Z EXCEPT !.trace = Append(@, [ev |-> "return", value |-> value])]

\* new SimObject(id, name) with transform.position.x = 5
NewSimObject ==
  /\ Len(nodes) < MaxTreeNodes
  /\ Commit([World EXCEPT !.nodes =
               Append(@, [SimObject(Len(nodes), NameOf(Len(nodes)), FALSE)
                            EXCEPT !.transform.position = Vector3(5, 0, 0)])],
            Op("new SimObject", NoMessage, 0))

\* this.addChild(child); the host gives a node children that it
\* constructed after the node
AddChild(this, child) ==
  /\ Len(nodes[this].children) < MaxChildren
  /\ Commit(addChild(Called(World, this, child), this, child),
            Op("SimObject.addChild", NoMessage, 0))

RemoveChild(this, child) ==
  Commit(removeChild(Called(World, this, child), this, child),
         Op("SimObject.removeChild", NoMessage, 0))

GetObjectByName(this, name) ==
  Commit(Returned(Called(World, this, name),
                  getObjectByName(World, this, name)),
         Op("SimObject.getObjectByName", NoMessage, 0))

SceneGetObjectByName(name) ==
  Commit(Returned(Called(World, 1, name), Scene_getObjectByName(World, name)),
         Op("Scene.getObjectByName", NoMessage, 0))

\* SimObject.update of node this
UpdateNode(this) ==
  Commit(SimObject_update(Called(World, this, 0), this),
         Op("SimObject.update", NoMessage, 0))

TreeNext ==
  \/ NewSimObject
  \/ \E this \in 1..Len(nodes) : \E child \in (this + 1)..Len(nodes) :
       AddChild(this, child)
  \/ \E this \in 1..Len(nodes), child \in 2..Len(nodes) :
       RemoveChild(this, child)
  \/ \E this \in 1..Len(nodes) : \E name \in Names :
       GetObjectByName(this, name)
  \/ \E name \in Names : SceneGetObjectByName(name)
  \/ \E this \in 1..Len(nodes) : UpdateNode(this)

SpecTree == Init /\ [][TreeNext]_vars

(***************************************************************************)
(* Actions of the zone manager and the asset manager                        *)
(***************************************************************************)
\* the zone ids the host asks for: 0 is registered, 1 is not
ZoneIds == {0, 1}

\* the parsed content of the zone file
ZoneFile ==
  [id |-> 0, name |-> "TestZone", hasObjects |-> TRUE,
   objects |-> << Object("parent", [x |-> 10],
                         << SpriteComponent("parentSprite"),
                            CollisionComponent("ground") >>, << >>,
                         << Object("child", [x |-> 5, y |-> 0],
                                   << SpriteComponent("childSprite") >>,
                                   << >>, << >>) >>) >>]

\* KoruTSEngine.start: ZoneManager.initialize() and the registration of
\* the builders that follows it
ZoneManagerInitialize ==
  /\ registeredZones = << >>
  /\ Commit(registerBuilders(ZoneManager_initialize(World)),
            Op("ZoneManager.initialize", NoMessage, 0))

RegisterLoader ==
  /\ loaders = << >>
  /\ Commit(AssetManager_registerLoader(World, JsonAssetLoader),
            Op("AssetManager.registerLoader", NoMessage, 0))

\* ZoneManager.changeZone(id), id being kept as the number of the
\* operation; the requests ever sent are nextId that were answered and
\* Len(requests) in flight
ChangeZone(id) ==
  /\ nextId + Len(requests) < MaxRequests
  /\ Len(collisionComponents) < MaxRegistered
  /\ Commit(ZoneManager_changeZone(World, id),
            Op("ZoneManager.changeZone", NoMessage, id))

\* the load event of request i: JsonAssetLoader.onJsonLoaded
OnJsonLoaded(i) ==
  /\ Commit(AssetManager_onAssetLoaded(
              [World EXCEPT !.requests = splice1(@, i)],
              JsonAsset(requests[i], ZoneFile)),
            Op("JsonAssetLoader.onJsonLoaded", NoMessage, 0))

\* MessageBus.update with the deliveries to the zone manager
ManagerDrain ==
  Commit(loadZones(MessageBus_update(World, 0)),
         Op("MessageBus.update", NoMessage, 0))

ManagerUpdate ==
  Commit(ZoneManager_update(World, 0), Op("ZoneManager.update", NoMessage, 0))

ManagerRender ==
  Commit(ZoneManager_render(World), Op("ZoneManager.render", NoMessage, 0))

ManagerNext ==
  \/ ZoneManagerInitialize
  \/ RegisterLoader
  \/ \E id \in ZoneIds : ChangeZone(id)
  \/ \E i \in 1..Len(requests) : OnJsonLoaded(i)
  \/ ManagerDrain
  \/ ManagerUpdate
  \/ ManagerRender

SpecManager == Init /\ [][ManagerNext]_vars

(***************************************************************************)
(* Actions of the zone manager when the zone file is faulty                 *)
(***************************************************************************)
\* the zone files the server may answer with: the good one, one without
\* 'objects', one with a component of a type that has no builder, and one
\* with a player whose animated sprite is not attached
ZoneFiles ==
  {ZoneFile,
   [id |-> 0, name |-> "TestZone", hasObjects |-> FALSE, objects |-> << >>],
   [id |-> 0, name |-> "TestZone", hasObjects |-> TRUE,
    objects |-> << Object("parent", [x |-> 10],
                          << [type |-> "mesh", name |-> "parentMesh"] >>,
                          << >>, << >>) >>],
   [id |-> 0, name |-> "TestZone", hasObjects |-> TRUE,
    objects |-> << Object("duck", [x |-> 0], << >>,
                          << PlayerBehaviour("player", "duckSprite") >>,
                          << >>) >>]}

\* the load event of request i, answered with file
OnFileLoaded(i, file) ==
  /\ Commit(AssetManager_onAssetLoaded(
              [World EXCEPT !.requests = splice1(@, i)],
              JsonAsset(requests[i], file)),
            Op("JsonAssetLoader.onJsonLoaded", NoMessage, 0))

\* ZoneManager.changeZone(0) with no request in flight
ChangeToTestZone ==
  /\ requests = << >>
  /\ ChangeZone(0)

FaultyNext ==
  \/ ZoneManagerInitialize
  \/ RegisterLoader
  \/ ChangeToTestZone
  \/ \E i \in 1..Len(requests) : \E file \in ZoneFiles : OnFileLoaded(i, file)
  \/ ManagerDrain
  \/ ManagerUpdate
  \/ ManagerRender

SpecFaulty == Init /\ [][FaultyNext]_vars

(***************************************************************************)
(* Actions of the engine                                                    *)
(***************************************************************************)
\* the subscriptions of the handlers of the running game
EngineSubscriptions ==
  {<<"COLLISION_ENTRY: player", "player">>, <<"PLAYER_DIED", "listener">>,
   <<"GAME_RESET", "player">>}

\* the places of the player in the running game: on the ground and away
\* from it
EnginePositions == {Vector2(1, 1), Vector2(9, 9)}

\* the game asks for a reset: Message.send("GAME_RESET", ...), once the
\* player has died
ResetGame ==
  /\ ~ isAlive
  /\ nextId <= MaxFrameMessages
  /\ \A q \in 1..Len(normalMessageQueue) :
       normalMessageQueue[q].message.code # "GAME_RESET"
  /\ Send("GAME_RESET", Undefined)

\* one frame: KoruTSEngine.update with delta as performance.now() gives it
EngineUpdate(delta) ==
  /\ totalTime + delta <= MaxTime
  /\ nextId <= MaxFrameMessages
  /\ Commit(KoruTSEngine_update(World, delta),
            Op("KoruTSEngine.update", NoMessage, delta))

\* KoruTSEngine.start: ZoneManager.changeZone(0), once
EngineChangeZone ==
  /\ requests = << >>
  /\ testZone \notin DOMAIN loadAssets
  /\ ChangeZone(0)

EngineNext ==
  \/ \E s \in EngineSubscriptions : AddSubscription(s[1], s[2])
  \/ RegisterCollisionComponent("player")
  \/ \E p \in EnginePositions : MoveShape("player", p)
  \/ ZoneManagerInitialize
  \/ RegisterLoader
  \/ EngineChangeZone
  \/ \E i \in 1..Len(requests) : OnJsonLoaded(i)
  \/ ResetGame
  \/ \E delta \in Deltas : EngineUpdate(delta)

SpecEngine == Init /\ [][EngineNext]_vars

(***************************************************************************)
(* Actions of the component and behaviour registries                        *)
(***************************************************************************)
\* the types of the builders the host registers
ComponentTypes == {"sprite", "collision"}

BehaviourTypes == {"player", "rotation"}

\* the configurations the host asks an instance for: of a registered type,
\* of a type no builder has, and without a type
ComponentConfigs ==
  {[type |-> "sprite", name |-> "s"], [type |-> "mesh", name |-> "s"],
   [name |-> "s"]}

BehaviourConfigs ==
  {[type |-> "rotation", name |-> "b"], [type |-> "fly", name |-> "b"],
   [name |-> "b"]}

\* the zone descriptions: an object with one component and one behaviour
RegistryZoneDatas ==
  {[hasObjects |-> TRUE,
    objects |-> << Object("o", [x |-> 0], << c >>, << b >>, << >>) >>] :
     c \in ComponentConfigs, b \in BehaviourConfigs}

RegisterComponentBuilder(type) ==
  Commit(ComponentManager_registerBuilder(World, type),
         Op("registerBuilder", NoMessage, type))

RegisterBehaviourBuilder(type) ==
  Commit(BehaviourManager_registerBuilder(World, type),
         Op("registerBuilder", NoMessage, type))

\* the result of a call: what it returned, unless it threw
Result(W) == IF W.thrown THEN W ELSE Returned(W, W.ret)

ExtractComponent(json) ==
  Commit(Result(ComponentManager_extractComponent(World, json)),
         Op("extractComponent", NoMessage, json))

ExtractBehaviour(json) ==
  Commit(Result(BehaviourManager_extractBehaviour(World, json)),
         Op("extractBehaviour", NoMessage, json))

RegistryNext ==
  \/ \E type \in ComponentTypes : RegisterComponentBuilder(type)
  \/ \E type \in BehaviourTypes : RegisterBehaviourBuilder(type)
  \/ \E json \in ComponentConfigs : ExtractComponent(json)
  \/ \E json \in BehaviourConfigs : ExtractBehaviour(json)
  \/ \E zoneData \in RegistryZoneDatas : ZoneInitialize(zoneData)

SpecRegistry == Init /\ [][RegistryNext]_vars

(***************************************************************************)
(* Actions of the shapes                                                    *)
(***************************************************************************)
\* the shapes the host builds: circles and rectangles that are apart,
\* touch, overlap, contain one another or cross
Shapes ==
  {Circle2D(Vector2(0, 0), 5), Circle2D(Vector2(8, 0), 5),
   Circle2D(Vector2(10, 0), 5), Circle2D(Vector2(0, 0), 1),
   Circle2D(Vector2(12, 12), 1), Circle2D(Vector2(16, 12), 1),
   Rectangle2D(Vector2(0, 0), 10, 10), Rectangle2D(Vector2(5, 5), 10, 10),
   Rectangle2D(Vector2(10, 10), 5, 5), Rectangle2D(Vector2(0, 4), 10, 2),
   Rectangle2D(Vector2(4, 0), 2, 10), Rectangle2D(Vector2(2, 2), 2, 2)}

\* this.intersects(other)
Intersects(this, other) ==
  Commit(Returned(World, intersects(this, other)),
         Op("intersects", NoMessage, << this, other >>))

\* the rectangles the host asks about a point: of positive, of negative
\* and of mixed width and height
PointRectangles ==
  {Rectangle2D(Vector2(0, 0), 2, 2), Rectangle2D(Vector2(0, 0), -2, 2),
   Rectangle2D(Vector2(0, 0), 2, -2), Rectangle2D(Vector2(1, 1), -2, -2)}

\* the points it asks about
Points == {Vector2(x, y) : x \in -3..3, y \in -3..3}

\* this.pointInShape(point)
PointInShape(this, point) ==
  Commit(Returned(World, Rectangle2D_pointInShape(this, point)),
         Op("pointInShape", NoMessage, << this, point >>))

ShapesNext ==
  \/ \E this \in Shapes, other \in Shapes : Intersects(this, other)
  \/ \E this \in PointRectangles, point \in Points : PointInShape(this, point)

SpecShapes == Init /\ [][ShapesNext]_vars

(***************************************************************************)
(* Actions of the material cache                                            *)
(***************************************************************************)
RegisterMaterial(name) ==
  Commit(registerMaterial(World, Material(name)),
         Op("registerMaterial", NoMessage, name))

\* getMaterial; a material it returns is one more reference the host holds
GetMaterial(materialName) ==
  /\ held[materialName] < MaxReferences
  /\ \E W \in {getMaterial(World, materialName)} :
       Commit([W EXCEPT !.held[materialName] =
                 IF W.ret = Undefined THEN @ ELSE @ + 1],
              Op("getMaterial", NoMessage, materialName))

\* releaseMaterial; it gives back a reference when the host holds one
ReleaseMaterial(materialName) ==
  Commit([releaseMaterial(World, materialName) EXCEPT !.held[materialName] =
            IF @ > 0 THEN @ - 1 ELSE @],
         Op("releaseMaterial", NoMessage, materialName))

MaterialNext ==
  \/ \E name \in MaterialNames : RegisterMaterial(name)
  \/ \E materialName \in MaterialNames : GetMaterial(materialName)
  \/ \E materialName \in MaterialNames : ReleaseMaterial(materialName)

SpecMaterial == Init /\ [][MaterialNext]_vars

(***************************************************************************)
(* Properties of a zone                                                     *)
(***************************************************************************)
Reached(trace, ev) == \E i \in 1..Len(trace) : trace[i].ev = ev

\* C10: a freshly constructed Zone is UNINITIALIZED; Zone.update and
\* Zone.render reach the scene exactly when the state is UPDATING and
\* change nothing otherwise; when Zone.load returns the state is UPDATING.
C10_ZoneGatesOnUpdating ==
  /\ zoneState = UNINITIALIZED
  /\ [][/\ last'.op = "Zone.update" =>
             /\ Reached(last'.trace, "Scene.update") <=> zoneState = UPDATING
             /\ zoneState # UPDATING => UNCHANGED zoneVars
        /\ last'.op = "Zone.render" =>
             /\ Reached(last'.trace, "Scene.render") <=> zoneState = UPDATING
             /\ zoneState # UPDATING => UNCHANGED zoneVars
        /\ (last'.op = "Zone.load" /\ ~ last'.thrown) =>
             zoneState' = UPDATING
       ]_vars

\* an update that reached the scene of a loaded zone and moved a node
C10_Witness ==
  /\ last.op = "Zone.update"
  /\ zoneState = UPDATING
  /\ Reached(last.trace, "Scene.update")
  /\ \E this \in 1..Len(nodes) : nodes[this].worldMatrix # Matrix4x4_identity

\* C11: over any sequence of Zone operations the state only moves forward
\* along UNINITIALIZED -> LOADING -> UPDATING; once the zone has reached
\* UPDATING it is never LOADING or UNINITIALIZED again.
C11_StateOnlyMovesForward ==
  [][/\ zoneState' >= zoneState
     /\ zoneState = UPDATING => zoneState' = UPDATING]_vars

(***************************************************************************)
(* Properties of the zone manager                                           *)
(***************************************************************************)
\* the number of events ev in a trace
Events(trace, ev) ==
  Cardinality({i \in 1..Len(trace) : trace[i].ev = ev})

\* the deliveries of an asset-ready notification to the zone manager
ManagerDeliveries(trace) ==
  Cardinality({i \in 1..Len(trace) :
                 /\ trace[i].ev = "onMessage"
                 /\ trace[i].handler = "zoneManager"
                 /\ trace[i].message.code
                      = MESSAGE_ASSET_LOADER_ASSET_LOADED \o testZone})

\* event first comes before event second in a trace
Before(trace, first, second) ==
  \E i, j \in 1..Len(trace) :
    i < j /\ trace[i].ev = first /\ trace[j].ev = second

\* handler is subscribed to code
Subscribed(subs, code, handler) ==
  /\ code \in DOMAIN subs
  /\ \E i \in 1..Len(subs[code]) : subs[code][i] = handler

ChangedZone(id) ==
  last'.op = "ZoneManager.changeZone" /\ last'.delta = id

\* C12: ZoneManager.changeZone(id) throws whenever id is not a registered
\* zone id, and then constructs no zone and requests no asset.
C12_UnknownZoneIdFails ==
  [][\A id \in ZoneIds :
       (ChangedZone(id) /\ id \notin DOMAIN registeredZones) =>
         /\ last'.thrown
         /\ Events(last'.trace, "new Zone") = 0
         /\ Events(last'.trace, "AssetManager.loadAsset") = 0
         /\ UNCHANGED <<zoneState, globalID, nodes, requests, loadAssets,
                        subscription>>
    ]_vars

\* a failed change to the unregistered zone 1 while zone 0 is registered
\* and loaded
C12_Witness ==
  /\ last.op = "ZoneManager.changeZone"
  /\ last.delta = 1
  /\ last.thrown
  /\ 0 \in DOMAIN registeredZones
  /\ testZone \in DOMAIN loadAssets

\* C13: when the asset of the requested zone is not loaded, changeZone
\* returns with no active zone, the manager subscribed to the asset's
\* ready notification and the fetch requested, without constructing a
\* zone; a zone is constructed, initialized and loaded only when that
\* notification is delivered to the manager, once per delivery, or inside
\* changeZone when the asset is already loaded.
C13_ZoneConstructionWaitsForAsset ==
  [][/\ \A id \in DOMAIN registeredZones :
          ChangedZone(id) =>
            IF registeredZones[id] \in DOMAIN loadAssets
            THEN /\ Events(last'.trace, "new Zone") = 1
                 /\ Before(last'.trace, "new Zone", "Zone.initialize")
                 /\ Before(last'.trace, "Zone.initialize", "Zone.load")
                 /\ activeZone'
                 /\ zoneState' = UPDATING
            ELSE /\ ~ last'.thrown
                 /\ ~ activeZone'
                 /\ Events(last'.trace, "new Zone") = 0
                 /\ UNCHANGED zoneVars
                 /\ Subscribed(subscription',
                               MESSAGE_ASSET_LOADER_ASSET_LOADED
                                 \o registeredZones[id], "zoneManager")
                 /\ Events(last'.trace, "AssetManager.loadAsset") = 1
                 /\ loaders # << >> =>
                      requests' = Append(requests, registeredZones[id])
     /\ last'.op = "MessageBus.update" =>
          /\ Events(last'.trace, "new Zone")
               = ManagerDeliveries(last'.trace)
          /\ Events(last'.trace, "Zone.load")
               = ManagerDeliveries(last'.trace)
          /\ ManagerDeliveries(last'.trace) > 0 =>
               activeZone' /\ zoneState' = UPDATING
     /\ last'.op \notin {"ZoneManager.changeZone", "MessageBus.update"} =>
          Events(last'.trace, "new Zone") = 0 /\ activeZone' = activeZone
    ]_vars

\* the drain that delivers the notification to the manager, which
\* constructs and loads the zone
C13_Witness ==
  /\ last.op = "MessageBus.update"
  /\ ManagerDeliveries(last.trace) = 1
  /\ Before(last.trace, "onMessage", "new Zone")
  /\ Before(last.trace, "new Zone", "Zone.load")
  /\ activeZone
  /\ zoneState = UPDATING
  /\ Len(nodes) = 3

\* C14: the deferred construction is a one-shot wait: the notifications
\* delivered to the manager construct at most one zone, and a
\* notification delivered when a zone has been constructed neither
\* constructs a zone nor replaces the active zone.
C14_OneShotWait ==
  [][last'.op = "MessageBus.update" =>
       /\ Events(last'.trace, "new Zone") <= 1
       /\ activeZone => /\ Events(last'.trace, "new Zone") = 0
                        /\ UNCHANGED zoneVars
    ]_vars

(***************************************************************************)
(* Properties of the scene tree                                             *)
(***************************************************************************)
\* the nodes whose children list holds node c
ParentsOf(ns, c) == {p \in 1..Len(ns) : c \in Kids(ns, p)}

RECURSIVE Ancestors(_, _, _)
\* the nodes on the chain of parent links of node c, followed for at most
\* k links
Ancestors(ns, c, k) ==
  IF k = 0 \/ ns[c].parent = 0 THEN {}
  ELSE {ns[c].parent} \cup Ancestors(ns, ns[c].parent, k - 1)

\* C15: after any sequence of addChild and removeChild calls every node is
\* in the children list of at most one node, that node is its parent, and
\* the parent links contain no cycle.
C15_NodeTreeIsATree ==
  \A c \in 1..Len(nodes) :
    /\ Cardinality(ParentsOf(nodes, c)) <= 1
    /\ \A p \in ParentsOf(nodes, c) : nodes[c].parent = p
    /\ c \notin Ancestors(nodes, c, Len(nodes))

\* the operation just made is method op of node this with argument arg
Did(op, this, arg) ==
  /\ last'.op = op
  /\ last'.trace[1] = [ev |-> "call", node |-> this, arg |-> arg]

\* C16: parent.removeChild(c) removes c from the children of parent when
\* it is there and clears the parent link of c, so that a later update of
\* c gives it a world matrix equal to its local matrix; when c is not a
\* child of parent nothing changes.
C16_RemoveChildDetaches ==
  [][\A parent, c \in 1..Len(nodes) :
       /\ Did("SimObject.removeChild", parent, c) =>
            IF c \in Kids(nodes, parent)
            THEN /\ nodes'[parent].children
                      = splice1(nodes[parent].children,
                                indexOf(nodes[parent].children, c))
                 /\ nodes'[c].parent = 0
            ELSE UNCHANGED nodes
       /\ (Did("SimObject.update", c, 0) /\ ParentsOf(nodes, c) = {}) =>
            nodes'[c].worldMatrix = nodes'[c].localMatrix
    ]_vars

\* C17: getObjectByName(name) of a node, and of the scene for its root,
\* returns a node of that name whenever the subtree holds one, in
\* whichever branch, and undefined only when it holds none.
C17_NameLookupSearchesSubtree ==
  \A this \in 1..Len(nodes) : \A name \in Names :
    (/\ \/ last.op = "SimObject.getObjectByName"
        \/ last.op = "Scene.getObjectByName" /\ this = 1
     /\ last.trace[1] = [ev |-> "call", node |-> this, arg |-> name]) =>
      LET named == {n \in {this} \cup Below(nodes, this) :
                      nodes[n].name = name}
          result == last.trace[2].value
      IN IF named = {} THEN result = 0 ELSE result \in named


\* C18: the nodes of the zone's scene tree, the scene root included, have
\* pairwise distinct ids, and the ids Zone.initialize gave strictly
\* increase in the order in which the nodes were constructed
C18_IdsAreDistinct ==
  /\ \A i \in 1..Len(nodes) : \A j \in 1..Len(nodes) :
       (i # j /\ InScene(nodes, i) /\ InScene(nodes, j))
         => nodes[i].id # nodes[j].id
  /\ \A i \in 2..Len(nodes) : \A j \in 2..Len(nodes) :
       i < j => nodes[i].id < nodes[j].id


RECURSIVE ComponentUpdates(_, _, _)
\* the updates of the components of node this from index i on
ComponentUpdates(ns, this, i) ==
  IF i > Len(ns[this].components) THEN << >>
  ELSE << [ev |-> "component.update", node |-> this,
           name |-> ns[this].components[i].name] >>
       \o ComponentUpdates(ns, this, i + 1)

RECURSIVE BehaviourUpdates(_, _, _)
\* the updates of the behaviours of node this from index i on
BehaviourUpdates(ns, this, i) ==
  IF i > Len(ns[this].behaviours) THEN << >>
  ELSE << [ev |-> "behaviour.update", node |-> this,
           name |-> ns[this].behaviours[i].name] >>
       \o BehaviourUpdates(ns, this, i + 1)

RECURSIVE UpdateOrder(_, _)
RECURSIVE ChildrenUpdates(_, _, _)
\* the steps of an update of node this: local matrix, world matrix,
\* components, behaviours, then the children, each with its whole subtree
UpdateOrder(ns, this) ==
  << [ev |-> "localMatrix", node |-> this, name |-> ""],
     [ev |-> "worldMatrix", node |-> this, name |-> ""] >>
  \o ComponentUpdates(ns, this, 1)
  \o BehaviourUpdates(ns, this, 1)
  \o ChildrenUpdates(ns, this, 1)

ChildrenUpdates(ns, this, i) ==
  IF i > Len(ns[this].children) THEN << >>
  ELSE UpdateOrder(ns, ns[this].children[i])
       \o ChildrenUpdates(ns, this, i + 1)

\* C19: an update of an updating zone handles every node in the same
\* order: its local matrix, its world matrix, its components in attachment
\* order, its behaviours in attachment order, then its children in list
\* order, depth-first
C19_UpdateOrder ==
  (last.op = "Zone.update" /\ zoneState = UPDATING)
    => last.trace = << [ev |-> "Scene.update"] >> \o UpdateOrder(nodes, 1)

\* an update of a scene where a node with two components, two behaviours
\* and a child was updated
C19_Witness ==
  /\ last.op = "Zone.update"
  /\ zoneState = UPDATING
  /\ \E this \in 2..Len(nodes) :
       /\ Len(nodes[this].components) = 2
       /\ Len(nodes[this].behaviours) = 2
       /\ nodes[this].children # << >>
       /\ \E k \in 1..Len(last.trace) :
            last.trace[k] = [ev |-> "behaviour.update", node |-> this,
                             name |-> nodes[this].behaviours[2].name]


\* the position a world matrix carries: its translation column
position(m) == Vector3(dataAt(m, 12), dataAt(m, 13), dataAt(m, 14))

RECURSIVE SumOfPositions(_, _)
\* the sum of the positions of node this and of its ancestors
SumOfPositions(ns, this) ==
  IF this = 0 THEN Vector3(0, 0, 0)
  ELSE LET above == SumOfPositions(ns, ns[this].parent)
           own == ns[this].transform.position
       IN Vector3(above.x + own.x, above.y + own.y, above.z + own.z)

\* the transform of node this is a pure translation
PureTranslation(ns, this) ==
  /\ ns[this].transform.rotation = Vector3_zero
  /\ ns[this].transform.scale = Vector3_one

\* C20: after an update of the tree from its root the root's world matrix
\* is its local matrix, every other node's world matrix is its parent's
\* world matrix times its own local matrix, and, all transforms being pure
\* translations, the world position of a node is the sum of the positions
\* along its ancestor chain
C20_WorldIsParentTimesLocal ==
  (last.op = "Zone.update" /\ zoneState = UPDATING)
    => \A this \in {n \in 1..Len(nodes) : InScene(nodes, n)} :
         /\ nodes[this].parent = 0
              => nodes[this].worldMatrix = nodes[this].localMatrix
         /\ nodes[this].parent # 0
              => nodes[this].worldMatrix
                   = Matrix4x4_multiply(nodes[nodes[this].parent].worldMatrix,
                                        nodes[this].localMatrix)
         /\ (\A n \in 1..Len(nodes) :
               InScene(nodes, n) => PureTranslation(nodes, n))
              => position(nodes[this].worldMatrix)
                   = SumOfPositions(nodes, this)


RECURSIVE ComponentLoads(_, _, _)
\* the loads of the components of node this from index i on
ComponentLoads(ns, this, i) ==
  IF i > Len(ns[this].components) THEN << >>
  ELSE << [ev |-> "component.load", node |-> this,
           name |-> ns[this].components[i].name] >>
       \o ComponentLoads(ns, this, i + 1)

RECURSIVE LoadOrder(_, _)
RECURSIVE ChildrenLoads(_, _, _)
\* the steps of a load of node this: the node is marked loaded, its
\* components are loaded, then its children, each with its whole subtree
LoadOrder(ns, this) ==
  << [ev |-> "isLoaded", node |-> this, name |-> ""] >>
  \o ComponentLoads(ns, this, 1)
  \o ChildrenLoads(ns, this, 1)

ChildrenLoads(ns, this, i) ==
  IF i > Len(ns[this].children) THEN << >>
  ELSE LoadOrder(ns, ns[this].children[i]) \o ChildrenLoads(ns, this, i + 1)

\* the steps of the first pass of Zone.load
FirstPass == << [ev |-> "Scene.load"] >> \o LoadOrder(nodes, 1)

\* C21: Zone.load sets the state to LOADING, loads the whole tree (a node
\* is marked loaded, then its components in attachment order, then its
\* children), starts the updateReady pass only after that, and the state
\* is UPDATING only when the second pass has finished
C21_LoadIsTwoPass ==
  last.op = "Zone.load"
    => /\ Len(last.trace) >= Len(FirstPass)
       /\ SubSeq(last.trace, 1, Len(FirstPass)) = FirstPass
       /\ \A k \in (Len(FirstPass) + 1)..Len(last.trace) :
            last.trace[k].ev \in {"component.updateReady",
                                  "behaviour.updateReady", "throw"}
       /\ \A k \in 1..Len(last.trace) :
            (last.trace[k].ev = "component.updateReady" /\ ~ last.thrown)
              => \A n \in 1..Len(nodes) :
                   InScene(nodes, n) => nodes[n].isLoaded
       /\ zoneState = (IF last.thrown THEN LOADING ELSE UPDATING)

\* a load of a scene with a node that has components and a child, whose
\* second pass ran and finished
C21_Witness ==
  /\ last.op = "Zone.load"
  /\ ~ last.thrown
  /\ zoneState = UPDATING
  /\ \E this \in 2..Len(nodes) :
       /\ Len(nodes[this].components) = 2
       /\ nodes[this].children # << >>
       /\ \E k \in 1..Len(last.trace) :
            /\ last.trace[k].ev = "component.updateReady"
            /\ last.trace[k].node = nodes[this].children[1]


\* C22: extractComponent and extractBehaviour throw when the
\* configuration has no type or its type has no registered builder, and
\* return an instance otherwise; no node ever holds an undefined component
\* or behaviour
C22_ExtractThrowsOrBuilds ==
  /\ last.op \in {"extractComponent", "extractBehaviour"}
       => LET json == last.delta
              builders == IF last.op = "extractComponent"
                          THEN componentBuilders ELSE behaviourBuilders
          IN IF "type" \in DOMAIN json /\ json.type \in builders
             THEN /\ ~ last.thrown
                  /\ last.trace = << [ev |-> "return", value |-> json] >>
             ELSE last.thrown
  /\ \A n \in 1..Len(nodes) :
       /\ \A k \in 1..Len(nodes[n].components) :
            nodes[n].components[k] # Undefined
       /\ \A k \in 1..Len(nodes[n].behaviours) :
            nodes[n].behaviours[k] # Undefined


\* the value a description gives a coordinate, 0 when it gives none
Coordinate(json, f) == IF f \in DOMAIN json THEN json[f] ELSE 0

RECURSIVE Described(_, _, _)
\* what a list of object descriptions asks for, in the order of
\* construction: for every object its name, its parent, its position and
\* the number of its components; first is the place of the first node
Described(list, parent, first) ==
  IF list = << >> THEN << >>
  ELSE LET o == Head(list)
           below == Described(o.children, first, first + 1)
       IN << [name |-> o.name, parent |-> parent,
              position |-> Vector3(Coordinate(o.transform.position, "x"),
                                   Coordinate(o.transform.position, "y"),
                                   Coordinate(o.transform.position, "z")),
              components |-> Len(o.components)] >>
          \o below
          \o Described(Tail(list), parent, first + 1 + Len(below))

RECURSIVE DescribedChildren(_, _, _, _)
\* the places, in order, of the described nodes from the k-th on whose
\* parent is this; first is the place of the first described node
DescribedChildren(want, this, first, k) ==
  IF k > Len(want) THEN << >>
  ELSE (IF want[k].parent = this THEN << first + k - 1 >> ELSE << >>)
       \o DescribedChildren(want, this, first, k + 1)

\* C23: a Zone.initialize that returns has built one node per object
\* description, nested below the scene root as the descriptions are
\* nested, each with the described name, position and number of components
C23_InitializeBuildsDescribedTree ==
  [][(last'.op = "Zone.initialize" /\ ~ last'.thrown)
       => LET first == Len(nodes) + 1
              want == Described(last'.delta.objects, 1, first)
          IN /\ Len(nodes') = Len(nodes) + Len(want)
             /\ nodes'[1].children
                  = nodes[1].children \o DescribedChildren(want, 1, first, 1)
             /\ \A k \in 1..Len(want) :
                  LET n == nodes'[first + k - 1]
                  IN /\ n.name = want[k].name
                     /\ n.parent = want[k].parent
                     /\ n.transform.position = want[k].position
                     /\ Len(n.components) = want[k].components
                     /\ n.children
                          = DescribedChildren(want, first + k - 1, first, 1)
     ]_vars

\* the description of a parent with one child was built in an empty
\* scene: exactly two nodes below the root, the child below the parent
C23_Witness ==
  /\ last.op = "Zone.initialize"
  /\ ~ last.thrown
  /\ Len(last.delta.objects) = 1
  /\ Len(last.delta.objects[1].children) = 1
  /\ Len(nodes) = 3
  /\ nodes[1].children = << 2 >>
  /\ nodes[2].name = "parent"
  /\ nodes[2].children = << 3 >>
  /\ nodes[3].name = "child"
  /\ nodes[3].parent = 2
  /\ nodes[3].transform.position = Vector3(5, 0, 0)
  /\ Len(nodes[3].components) = 1


\* the two shapes of the last intersects and what it returned
This == last.delta[1]

Other == last.delta[2]

Answer == last.trace[1].value

\* d clamped to the interval from lo to hi
Clamp(d, lo, hi) == IF d < lo THEN lo ELSE IF d > hi THEN hi ELSE d

\* the square of the distance from the centre of circle c to the point of
\* rectangle r that is nearest to it
ClampedDistance2(r, c) ==
  LET nx == Clamp(c.position.x, r.position.x, r.position.x + r.width)
      ny == Clamp(c.position.y, r.position.y, r.position.y + r.height)
  IN (c.position.x - nx) * (c.position.x - nx)
     + (c.position.y - ny) * (c.position.y - ny)

\* C24: two circles intersect when the distance of their centres is at
\* most the sum of their radii; a rectangle and a circle, asked from
\* either, intersect when the circle's centre clamped to the rectangle is
\* nearer to the centre than the radius; Circle((0,0),5) meets
\* Circle((8,0),5), Circle((0,0),1) does not meet Rectangle((10,10),5,5)
C24_CircleIntersections ==
  last.op = "intersects"
    => /\ (This.type = "circle" /\ Other.type = "circle")
            => (Answer <=>
                  (This.position.x - Other.position.x)
                    * (This.position.x - Other.position.x)
                  + (This.position.y - Other.position.y)
                    * (This.position.y - Other.position.y)
                  <= (This.radius + Other.radius)
                       * (This.radius + Other.radius))
       /\ (This.type = "circle" /\ Other.type = "rectangle")
            => (Answer <=>
                  ClampedDistance2(Other, This) < This.radius * This.radius)
       /\ (This.type = "rectangle" /\ Other.type = "circle")
            => (Answer <=>
                  ClampedDistance2(This, Other) < Other.radius * Other.radius)
       /\ (/\ This = Circle2D(Vector2(0, 0), 5)
           /\ Other = Circle2D(Vector2(8, 0), 5)) => Answer
       /\ (/\ This = Circle2D(Vector2(0, 0), 1)
           /\ Other = Rectangle2D(Vector2(10, 10), 5, 5)) => ~ Answer

\* Circle((0,0),5) was asked about Circle((8,0),5)
C24_Witness ==
  /\ last.op = "intersects"
  /\ This = Circle2D(Vector2(0, 0), 5)
  /\ Other = Circle2D(Vector2(8, 0), 5)
  /\ Answer

\* the corners of rectangle r
Corners(r) ==
  {Vector2(px, py) : px \in {r.position.x, r.position.x + r.width},
                     py \in {r.position.y, r.position.y + r.height}}

\* point p lies in rectangle r, bounds included
Inside(r, p) ==
  /\ r.position.x <= p.x
  /\ p.x <= r.position.x + r.width
  /\ r.position.y <= p.y
  /\ p.y <= r.position.y + r.height

\* C30: for rectangles of non-negative width and height A.intersects(B)
\* is true exactly when a corner of B lies inside A, bounds included;
\* Rectangle((0,0),10x10) meets Rectangle((5,5),10x10), and a B that
\* contains A or crosses it with no corner inside A is not reported
C30_RectangleCornerTest ==
  (/\ last.op = "intersects"
   /\ This.type = "rectangle"
   /\ Other.type = "rectangle")
    => /\ Answer <=> \E p \in Corners(Other) : Inside(This, p)
       /\ (/\ This = Rectangle2D(Vector2(0, 0), 10, 10)
           /\ Other = Rectangle2D(Vector2(5, 5), 10, 10)) => Answer
       /\ (/\ This = Rectangle2D(Vector2(2, 2), 2, 2)
           /\ Other = Rectangle2D(Vector2(0, 0), 10, 10)) => ~ Answer
       /\ (/\ This = Rectangle2D(Vector2(0, 4), 10, 2)
           /\ Other = Rectangle2D(Vector2(4, 0), 2, 10)) => ~ Answer

\* the bar Rectangle((0,4),10x2) was asked about the bar
\* Rectangle((4,0),2x10) that crosses it
C30_Witness ==
  /\ last.op = "intersects"
  /\ This = Rectangle2D(Vector2(0, 4), 10, 2)
  /\ Other = Rectangle2D(Vector2(4, 0), 2, 10)
  /\ ~ Answer


\* handler is in the list of code before the step
SubscribedTo(code, handler) ==
  \E i \in 1..Len(HandlersOf(code)) : HandlersOf(code)[i] = handler

\* C25: the redundant calls of the message bus do not throw and leave the
\* subscription lists and the queue as they were: a subscription of a
\* handler the code already has, a removal from a code without a list, a
\* removal of a handler the code's list does not hold, and a post to a
\* code without subscribers
C25_RedundantCallsChangeNothing ==
  [][(\/ /\ last'.op = "addSubscription"
         /\ SubscribedTo(last'.delta[1], last'.delta[2])
      \/ /\ last'.op = "removeSubscription"
         /\ ~ SubscribedTo(last'.delta[1], last'.delta[2])
      \/ /\ last'.op = "post"
         /\ HandlersOf(last'.message.code) = << >>)
       => /\ ~ last'.thrown
          /\ normalMessageQueue' = normalMessageQueue
          /\ \A code \in BusCodes :
               /\ code \in DOMAIN subscription
                    => /\ code \in DOMAIN subscription'
                       /\ subscription'[code] = subscription[code]
               /\ code \notin DOMAIN subscription
                    => code \notin DOMAIN subscription'
     ]_vars

\* a removal from a code that has no list, made while another code has
\* handlers and messages are queued
C25_Witness ==
  /\ last.op = "removeSubscription"
  /\ last.delta[1] \notin DOMAIN subscription
  /\ \E i \in 1..Len(last.trace) : last.trace[i].ev = "warn"
  /\ \E code \in DOMAIN subscription : subscription[code] # << >>
  /\ normalMessageQueue # << >>


\* C26: a tick handles every unordered pair of distinct registered
\* components once: the tick that creates the record of a pair calls no
\* update callback for the pair, and a later tick that finds the pair
\* still intersecting calls the update callback of each of the two
\* components exactly once
C26_PairHandledOncePerTick ==
  [][last'.op = "tick" =>
       \A x, y \in Components :
         (/\ x # y
          /\ Registered(x)
          /\ Registered(y)
          /\ PairRecords(collisionData', x, y) # {}) =>
           LET had == PairRecords(collisionData, x, y) # {}
               t == last'.trace
               updates == Cardinality(
                            {i \in 1..Len(t) :
                               /\ t[i].ev = "onCollisionUpdate"
                               /\ t[i].self = x
                               /\ t[i].other = y})
           IN IF had THEN updates = 1 ELSE updates = 0
     ]_vars


\* the collision components of the nodes of the scene
CollisionComponentsOf(ns) ==
  UNION {{ns[n].components[k].name :
            k \in {j \in 1..Len(ns[n].components) :
                     ns[n].components[j].type = "collision"}} :
           n \in {i \in 1..Len(ns) : InScene(ns, i)}}

\* C27: a collision component is registered with the collision engine
\* when it is loaded, and once ZoneManager.changeZone has replaced a
\* loaded zone none of that zone's collision components is registered:
\* the registry holds the components of the zone that took its place, once
C27_UnloadUnregisters ==
  [][/\ (/\ last'.op \in {"MessageBus.update", "ZoneManager.changeZone"}
         /\ activeZone'
         /\ zoneState' = UPDATING)
          => \A c \in CollisionComponentsOf(nodes') : Registered(c)'
     /\ (/\ last'.op = "ZoneManager.changeZone"
         /\ ~ last'.thrown
         /\ activeZone
         /\ zoneState = UPDATING)
          => \A c \in CollisionComponentsOf(nodes) :
               Cardinality({k \in 1..Len(collisionComponents') :
                              collisionComponents'[k] = c})
                 = (IF /\ activeZone'
                       /\ zoneState' = UPDATING
                       /\ c \in CollisionComponentsOf(nodes')
                    THEN 1 ELSE 0)
    ]_vars


\* the places of the calls ev in a trace
Steps(trace, ev) == {k \in 1..Len(trace) : trace[k].ev = ev}

\* the places of the three calls of a frame, in the order of the claim
FrameInOrder(trace, delta) ==
  \E i1, i2, i3 \in 1..Len(trace) :
    /\ i1 = 1
    /\ i1 < i2
    /\ i2 < i3
    /\ Steps(trace, "MessageBus.update") = {i1}
    /\ Steps(trace, "ZoneManager.update") = {i2}
    /\ Steps(trace, "CollisionManager.update") = {i3}
    /\ \A k \in {i1, i2, i3} : trace[k].time = delta

\* C28: an engine update drains the queued NORMAL messages, then updates
\* the active zone, then ticks the collision engine, each with the frame's
\* delta; a NORMAL message posted during the zone update or the tick is
\* not delivered in that frame and waits in the queue
C28_DrainThenZoneThenCollisions ==
  [][last'.op = "KoruTSEngine.update" =>
       LET t == last'.trace
           zone == CHOOSE k \in 1..Len(t) : t[k].ev = "ZoneManager.update"
       IN /\ FrameInOrder(t, last'.delta)
          /\ \A k \in 1..Len(t) :
               (t[k].ev = "onMessage" /\ t[k].message.priority = NORMAL)
                 => /\ k < zone
                    /\ \E q \in 1..Len(normalMessageQueue) :
                         normalMessageQueue[q]
                           = MessageSubscriptionNode(t[k].message,
                                                     t[k].handler)
          /\ \A k \in 1..Len(t) :
               (/\ t[k].ev = "post"
                /\ t[k].message.priority = NORMAL
                /\ k > zone)
                 => /\ \A j \in 1..Len(t) :
                         t[j].ev = "onMessage" => t[j].message # t[k].message
                    /\ \A h \in 1..Len(HandlersOf(t[k].message.code)) :
                         \E q \in 1..Len(normalMessageQueue') :
                           normalMessageQueue'[q]
                             = MessageSubscriptionNode(
                                 t[k].message,
                                 HandlersOf(t[k].message.code)[h])
     ]_vars

\* a frame that updated the scene of the active zone and in whose tick a
\* NORMAL message was posted, which now waits in the queue
C28_Witness ==
  /\ last.op = "KoruTSEngine.update"
  /\ \E k \in 1..Len(last.trace) : last.trace[k].ev = "Scene.update"
  /\ \E k \in 1..Len(last.trace) :
       /\ last.trace[k].ev = "post"
       /\ last.trace[k].message.priority = NORMAL
       /\ \E q \in 1..Len(normalMessageQueue) :
            normalMessageQueue[q].message = last.trace[k].message


RECURSIVE Descendants(_, _)
\* the nodes below node this along the children lists
Descendants(ns, this) ==
  UNION {{ns[this].children[k]} \cup Descendants(ns, ns[this].children[k]) :
           k \in 1..Len(ns[this].children)}

\* the place in a trace where node n was constructed, and where it was
\* attached to a parent; 0 when it was not
ConstructedAt(trace, n) ==
  IF \E k \in 1..Len(trace) :
       trace[k].ev = "new SimObject" /\ trace[k].node = n
  THEN CHOOSE k \in 1..Len(trace) :
         trace[k].ev = "new SimObject" /\ trace[k].node = n
  ELSE 0

AttachedAt(trace, n) ==
  IF \E k \in 1..Len(trace) : trace[k].ev = "addChild" /\ trace[k].child = n
  THEN CHOOSE k \in 1..Len(trace) :
         trace[k].ev = "addChild" /\ trace[k].child = n
  ELSE 0

\* C29: in Zone.initialize a node is attached to its parent only after
\* all of its descendants have been built and attached, and it is
\* constructed, and so given its id, before any of them: its id is
\* smaller than the id of each of its descendants
C29_BottomUpAttachment ==
  last.op = "Zone.initialize" =>
    \A n \in 2..Len(nodes) :
      LET t == last.trace
      IN AttachedAt(t, n) # 0 =>
           /\ ConstructedAt(t, n) # 0
           /\ ConstructedAt(t, n) < AttachedAt(t, n)
           /\ nodes[n].parent = t[AttachedAt(t, n)].node
           /\ \A d \in Descendants(nodes, n) :
                /\ ConstructedAt(t, n) < ConstructedAt(t, d)
                /\ AttachedAt(t, d) # 0
                /\ AttachedAt(t, d) < AttachedAt(t, n)
                /\ nodes[n].id < nodes[d].id

\* an initialize that built a parent with a child: the child was attached
\* to the parent before the parent was attached to the scene root
C29_Witness ==
  /\ last.op = "Zone.initialize"
  /\ ~ last.thrown
  /\ \E n \in 2..Len(nodes) :
       /\ Descendants(nodes, n) # {}
       /\ \E d \in Descendants(nodes, n) :
            /\ AttachedAt(last.trace, d) # 0
            /\ AttachedAt(last.trace, d) < AttachedAt(last.trace, n)


\* the lower and the upper end of the span from a to a + d
SpanLow(a, d) == IF d < 0 THEN a + d ELSE a

SpanHigh(a, d) == IF d < 0 THEN a ELSE a + d

\* C31: Rectangle2D.pointInShape normalizes negative dimensions: a point
\* is inside exactly when its x lies in the span from position.x to
\* position.x + width and its y in the span from position.y to
\* position.y + height, bounds included, whatever the signs of width and
\* height
C31_PointInShapeNormalizes ==
  last.op = "pointInShape" =>
    (Answer <=>
       /\ Other.x >= SpanLow(This.position.x, This.width)
       /\ Other.x <= SpanHigh(This.position.x, This.width)
       /\ Other.y >= SpanLow(This.position.y, This.height)
       /\ Other.y <= SpanHigh(This.position.y, This.height))


\* C32: after parent.addChild(child) the child is the last element of the
\* parent's children, its parent link is the parent, and the child and
\* every node of the subtree already built below it reference the scene
\* of the parent
C32_AddChildPropagatesScene ==
  last.op = "SimObject.addChild" =>
    LET parent == last.trace[1].node
        child == last.trace[1].arg
    IN /\ nodes[parent].children # << >>
       /\ nodes[parent].children[Len(nodes[parent].children)] = child
       /\ nodes[child].parent = parent
       /\ \A d \in {child} \cup Descendants(nodes, child) :
            nodes[d].scene = nodes[parent].scene


\* C33: a material stays in the cache while the host holds a reference
\* that getMaterial handed out, and the releaseMaterial that gives back
\* the last of these references destroys the material and removes it from
\* the cache
C33_DestroyedWhenAllReleased ==
  [][/\ \A n \in MaterialNames : held'[n] > 0 => n \in DOMAIN materials'
     /\ (/\ last'.op = "releaseMaterial"
         /\ last'.delta \in DOMAIN materials
         /\ held[last'.delta] = 1)
          => /\ last'.delta \notin DOMAIN materials'
             /\ Reached(last'.trace, "Material.destroy")
    ]_vars


\* C34: the recipient of a NORMAL message is fixed when it is posted:
\* addSubscription and removeSubscription leave the queue as it is, and
\* MessageBus.update delivers each of the oldest queued pairs to the
\* handler of the pair, whether or not that handler is still subscribed,
\* and delivers nothing to a handler that has no pair in the queue
C34_RecipientFixedAtPost ==
  [][/\ last'.op \in {"addSubscription", "removeSubscription"} =>
          normalMessageQueue' = normalMessageQueue
     /\ last'.op = "update" =>
          LET n == Min(normalQueueMessagePerUpdate, Len(normalMessageQueue))
              d == Deliveries(last'.trace)
          IN /\ Len(d) = n
             /\ \A i \in 1..n :
                  MessageSubscriptionNode(d[i].message, d[i].handler)
                    = normalMessageQueue[i]
    ]_vars

\* a drain delivered a message to a handler that had been unsubscribed
\* from its code after the post, and not to a handler that subscribed to
\* the code after the post
C34_Witness ==
  /\ last.op = "update"
  /\ \E i \in 1..Len(Deliveries(last.trace)) :
       LET e == Deliveries(last.trace)[i]
       IN /\ ~ SubscribedTo(e.message.code, e.handler)
          /\ \E h \in Handlers :
               /\ SubscribedTo(e.message.code, h)
               /\ \A j \in 1..Len(Deliveries(last.trace)) :
                    ~ (/\ Deliveries(last.trace)[j].handler = h
                       /\ Deliveries(last.trace)[j].message = e.message)


\* the number of times an operation delivered message m to handler h
TimesDelivered(trace, m, h) ==
  Cardinality({i \in 1..Len(trace) :
                 /\ trace[i].ev = "onMessage"
                 /\ trace[i].handler = h
                 /\ trace[i].message = m})

\* C35: a HIGH post delivers the message exactly once to every handler
\* that was subscribed to the code when post was called and to no other
\* handler, also when a handler changes the subscriptions of the code
\* while it is invoked
C35_HighPostReachesSubscribersOnce ==
  [][(last'.op = "post" /\ last'.message.priority = HIGH) =>
       \A h \in ReentrantHandlers \cup Handlers :
         TimesDelivered(last'.trace, last'.message, h)
           = IF SubscribedTo(last'.message.code, h) THEN 1 ELSE 0
    ]_vars


\* C36: SimObject.update computes the local and the world matrix of a node
\* before the node's components and behaviours run: after an update of
\* the zone the local matrix of every node of the scene is the matrix of
\* the transform the node had when the update began, and its world matrix
\* is built from it and from the world matrix of its parent, so what a
\* behaviour wrote to the transform in this update shows in no matrix
\* before the next update
C36_MatricesLagBehaviours ==
  [][(last'.op = "Zone.update" /\ zoneState = UPDATING) =>
       \A n \in 1..Len(nodes) : InScene(nodes, n) =>
         /\ nodes'[n].localMatrix
              = Transform_getTransformationMatrix(nodes[n].transform)
         /\ nodes'[n].worldMatrix
              = updateWorldMatrix(nodes'[n].localMatrix,
                                  IF nodes[n].parent # 0
                                  THEN nodes'[nodes[n].parent].worldMatrix
                                  ELSE Undefined)
    ]_vars

\* an update in which the keyboard behaviour moved a node that has a
\* child: the local matrix of the node is not the matrix of its transform
C36_Witness ==
  /\ last.op = "Zone.update"
  /\ \E i \in 1..Len(last.trace) : last.trace[i].ev = "behaviour.update"
  /\ \E n \in 2..Len(nodes) :
       /\ InScene(nodes, n)
       /\ nodes[n].children # << >>
       /\ nodes[n].localMatrix
            # Transform_getTransformationMatrix(nodes[n].transform)


\* the places in a trace where a message of code is posted
PostsOf(trace, code) ==
  {k \in 1..Len(trace) : trace[k].ev = "post" /\ trace[k].message.code = code}

\* the collision at place k of a trace is one with the ground or a pipe
Deadly(trace, k) ==
  LET data == trace[k].message.context
  IN \/ groundCollisionComponent \in {data.a, data.b}
     \/ {data.a, data.b} \cap pipeNames # {}

\* C37: in a frame of the engine the COLLISION_ENTRY message of the
\* player's component is HIGH priority and reaches the subscribed
\* PlayerBehaviour inside the collision tick that posts it, and a collision
\* with the ground or a pipe leaves the player dead when the frame ends;
\* PLAYER_DIED is NORMAL priority, is sent at most once and only by a
\* player that was alive or has been reset by GAME_RESET, is delivered to nobody in the frame that posts it and
\* waits in the queue for its subscribers; the only deliveries of
\* PLAYER_DIED in a frame are made by MessageBus.update
C37_DiesInTickAnnouncedNextDrain ==
  [][last'.op = "KoruTSEngine.update" =>
       LET t == last'.trace
           entries == PostsOf(t, "COLLISION_ENTRY: " \o playerCollisionComponent)
           died == PostsOf(t, "PLAYER_DIED")
           zoneStep == CHOOSE k \in 1..Len(t) : t[k].ev = "ZoneManager.update"
       IN /\ \A k \in entries :
               /\ t[k].message.priority = HIGH
               /\ SubscribedTo(t[k].message.code, "player") =>
                    /\ \E j \in (k + 1)..Len(t) :
                         /\ t[j].ev = "onMessage"
                         /\ t[j].handler = "player"
                         /\ t[j].message = t[k].message
                    /\ Deadly(t, k) => ~ isAlive'
          /\ Cardinality(died) <= 1
          /\ died # {} =>
               /\ \/ isAlive
                  \/ \E j \in 1..zoneStep :
                       /\ t[j].ev = "onMessage"
                       /\ t[j].handler = "player"
                       /\ t[j].message.code = "GAME_RESET"
               /\ ~ isAlive'
          /\ \A k \in died :
               /\ t[k].message.priority = NORMAL
               /\ k > zoneStep
               /\ \A j \in 1..Len(t) :
                    t[j].ev = "onMessage" => t[j].message # t[k].message
               /\ \A h \in Handlers : SubscribedTo("PLAYER_DIED", h) =>
                    \E q \in 1..Len(normalMessageQueue') :
                      normalMessageQueue'[q]
                        = MessageSubscriptionNode(t[k].message, h)
          /\ \A j \in 1..Len(t) :
               (t[j].ev = "onMessage" /\ t[j].message.code = "PLAYER_DIED")
                 => j < zoneStep
    ]_vars

\* a frame in which the player hit the ground and died, with PLAYER_DIED
\* left in the queue for the listener
C37_Witness ==
  /\ last.op = "KoruTSEngine.update"
  /\ PostsOf(last.trace, "PLAYER_DIED") # {}
  /\ ~ isAlive
  /\ \E q \in 1..Len(normalMessageQueue) :
       /\ normalMessageQueue[q].handler = "listener"
       /\ normalMessageQueue[q].message.code = "PLAYER_DIED"


\* C38: a ZoneManager.changeZone(id) that fails because id is not a
\* registered zone id leaves the manager as it was: the zone that was
\* active before the call is still the active zone
C38_FailedChangeKeepsActiveZone ==
  [][(last'.op = "ZoneManager.changeZone" /\ last'.thrown) =>
       /\ activeZone' = activeZone
       /\ UNCHANGED registeredZones
    ]_vars


\* C39: when Zone.initialize or Zone.load throws while
\* ZoneManager.loadZone constructs a zone, the manager is left with that
\* zone as its active zone, in state UNINITIALIZED or LOADING, and every
\* ZoneManager.update and ZoneManager.render made while the active zone
\* is not UPDATING reaches no scene and changes nothing
C39_FailedLoadLeavesDeadZone ==
  [][/\ (/\ last'.op \in {"MessageBus.update", "ZoneManager.changeZone"}
         /\ last'.thrown
         /\ Reached(last'.trace, "new Zone"))
          => /\ activeZone'
             /\ zoneState' \in {UNINITIALIZED, LOADING}
     /\ (/\ last'.op \in {"ZoneManager.update", "ZoneManager.render"}
         /\ activeZone
         /\ zoneState # UPDATING)
          => /\ ~ Reached(last'.trace, "Scene.update")
             /\ ~ Reached(last'.trace, "Scene.render")
             /\ UNCHANGED zoneVars
             /\ UNCHANGED managerVars
    ]_vars

\* an update of the manager whose active zone stopped in LOADING because
\* the load of its tree threw
C39_Witness ==
  /\ last.op = "ZoneManager.update"
  /\ activeZone
  /\ zoneState = LOADING
  /\ Len(nodes) > 1


\* C40: for two registered components that are not both static, whatever
\* the order of their registration, the pair has a record after a tick
\* exactly when at least one of the two directed tests a.intersects(b) and
\* b.intersects(a) is true
C40_RecordIffEitherDirectionHits ==
  [][last'.op = "tick" =>
       \A x, y \in Components :
         (/\ x # y
          /\ Registered(x)
          /\ Registered(y)
          /\ ~ (isStatic(x) /\ isStatic(y))) =>
           (PairRecords(collisionData', x, y) # {}
              <=> \/ intersects(shape(World, x), shape(World, y))
                  \/ intersects(shape(World, y), shape(World, x)))
    ]_vars

====
